---- MODULE Spec2Model ----
(***************************************************************************)
(* Egress gateway manager (package egressgateway): the Manager caches, the *)
(* event handlers, the endpoint event worker with its rate limited queue,  *)
(* the reconciliation trigger and reconcileLocked with its two diffs (IP   *)
(* rules/routes and egress policy map).                                    *)
(***************************************************************************)
EXTENDS Integers, Sequences, FiniteSets, TLC

(***************************************************************************)
(* Bounds of the model.                                                    *)
(***************************************************************************)
\* failures of one endpoint id the rate limiter counts exactly; from the 17th on the
\* delay is the cap, and the model keeps the count at this number
MaxAttempts == 18
\* kinds of events that may wait for a reconciliation when the watchers deliver one more
MaxCoalescedEvents == 2
\* width in bits of the destination address space CIDRs are taken from
AddrBits == 2

(***************************************************************************)
(* eventType (1 << iota)                                                   *)
(***************************************************************************)
eventNone == 1
eventK8sSyncDone == 2
eventAddPolicy == 4
eventDeletePolicy == 8
eventUpdateNode == 16
eventDeleteNode == 32
eventUpdateEndpoint == 64
eventDeleteEndpoint == 128

GatewayNotFoundIPv4 == "0.0.0.0"
ExcludedCIDRIPv4 == "0.0.0.1"

\* workqueue.NewItemExponentialFailureRateLimiter(20ms, 20min), in milliseconds
RetryBaseDelay == 20
RetryMaxDelay == 1200000

\* the name of the node the agent runs on (node.IsLocal())
LocalNodeName == <<1>>
\* linux_defaults.RouteTableEgressGatewayInterfacesOffset
RouteTableEgressGatewayInterfacesOffset == 300

(***************************************************************************)
(* Generic helpers: Go maps are functions on the set of their keys.        *)
(***************************************************************************)
EmptyMap == [k \in {} |-> k]

MapPut(m, k, v) == [x \in DOMAIN m \cup {k} |-> IF x = k THEN v ELSE m[x]]

MapDel(m, k) == [x \in DOMAIN m \ {k} |-> m[x]]

Range(s) == {s[i] : i \in DOMAIN s}

\* every order in which a Go map with key set S can be iterated
Perms(S) ==
    {s \in [1..Cardinality(S) -> S] : \A i, j \in 1..Cardinality(S) : s[i] = s[j] => i = j}

RECURSIVE Flatten(_)
Flatten(ss) == IF ss = <<>> THEN <<>> ELSE Head(ss) \o Flatten(Tail(ss))

RECURSIVE Pow2(_)
Pow2(n) == IF n = 0 THEN 1 ELSE 2 * Pow2(n - 1)

Min(a, b) == IF a < b THEN a ELSE b

(***************************************************************************)
(* The events bitmap.                                                      *)
(***************************************************************************)
BitIsSet(bitmap, e) == (bitmap \div e) % 2 = 1

\* a setEventBitmap that records no event
setEventBitmap_Noop(bitmap, e) == bitmap

setEventBitmap(bitmap, e) == IF BitIsSet(bitmap, e) THEN bitmap ELSE bitmap + e

eventBitmapIsSet(bitmap, events) == \E e \in events : BitIsSet(bitmap, e)

(***************************************************************************)
(* CIDRs over an AddrBits wide address space: <<base address, prefix len>>.*)
(***************************************************************************)
CIDRAddrs(c) == {a \in 0..(Pow2(AddrBits) - 1) :
                    a \div Pow2(AddrBits - c[2]) = c[1] \div Pow2(AddrBits - c[2])}

\* ip.PartitionCIDR(target, excluded): the parts of target left and right of excluded
RECURSIVE CIDRMinus(_, _)
CIDRMinus(target, excluded) ==
    IF CIDRAddrs(target) \cap CIDRAddrs(excluded) = {} THEN <<target>>
    ELSE IF CIDRAddrs(target) \subseteq CIDRAddrs(excluded) THEN <<>>
    ELSE CIDRMinus(<<target[1], target[2] + 1>>, excluded)
         \o CIDRMinus(<<target[1] + Pow2(AddrBits - target[2] - 1), target[2] + 1>>, excluded)

RECURSIVE CIDRsMinus(_, _)
CIDRsMinus(cidrs, excluded) ==
    IF cidrs = <<>> THEN <<>>
    ELSE CIDRMinus(Head(cidrs), excluded) \o CIDRsMinus(Tail(cidrs), excluded)

RECURSIVE CIDRsMinusAll(_, _)
CIDRsMinusAll(cidrs, excludedCIDRs) ==
    IF excludedCIDRs = <<>> THEN cidrs
    ELSE CIDRsMinusAll(CIDRsMinus(cidrs, Head(excludedCIDRs)), Tail(excludedCIDRs))

\* PolicyConfig.destinationMinusExcludedCIDRs
RECURSIVE DstMinusExcluded(_, _)
DstMinusExcluded(dstCIDRs, excludedCIDRs) ==
    IF dstCIDRs = <<>> THEN <<>>
    ELSE CIDRsMinusAll(<<Head(dstCIDRs)>>, excludedCIDRs)
         \o DstMinusExcluded(Tail(dstCIDRs), excludedCIDRs)

destinationMinusExcludedCIDRs(config) ==
    IF config.excludedCIDRs = <<>> THEN config.dstCIDRs
    ELSE DstMinusExcluded(config.dstCIDRs, config.excludedCIDRs)

(***************************************************************************)
(* PolicyConfig, gatewayConfig and endpointMetadata.                       *)
(*   PolicyConfig     [id, endpointSelector, dstCIDRs, excludedCIDRs,      *)
(*                     policyGwConfig, matchedEndpoints, gatewayConfig]    *)
(*   policyGwConfig   [nodeSelector, iface, egressIP]                      *)
(*   gatewayConfig    [egressIP, ifaceIndex, gatewayIP,                    *)
(*                     localNodeConfiguredAsGateway]                       *)
(*   endpointMetadata [id, ips, labels]                                    *)
(*   CiliumEndpoint   [id, ips, identity]                                  *)
(*   Node             [Name, IP, Label]                                    *)
(***************************************************************************)
\* the zero gatewayConfig a parsed PolicyConfig carries before its first regeneration
ZeroGatewayConfig ==
    [egressIP |-> "", ifaceIndex |-> 0, gatewayIP |-> "",
     localNodeConfiguredAsGateway |-> FALSE]

selectsEndpoint(config, ep) == ep.labels \in config.endpointSelector

updateMatchedEndpointIDs(config, store) ==
    [config EXCEPT !.matchedEndpoints =
        [id \in {i \in DOMAIN store : selectsEndpoint(config, store[i])} |-> store[id]]]

selectsNodeAsGateway(gwConfig, node) == node.Label = gwConfig.nodeSelector

regenerateGatewayConfig(config, nodeSeq) ==
    LET Selected(n) == selectsNodeAsGateway(config.policyGwConfig, n)
        gws == SelectSeq(nodeSeq, Selected)
        gwc == IF gws = <<>>
               THEN [egressIP |-> "0.0.0.0", ifaceIndex |-> 0,
                     gatewayIP |-> GatewayNotFoundIPv4,
                     localNodeConfiguredAsGateway |-> FALSE]
               ELSE IF Head(gws).Name = LocalNodeName
               THEN [egressIP |-> config.policyGwConfig.egressIP,
                     ifaceIndex |-> config.policyGwConfig.iface,
                     gatewayIP |-> Head(gws).IP,
                     localNodeConfiguredAsGateway |-> TRUE]
               ELSE [egressIP |-> "0.0.0.0", ifaceIndex |-> 0,
                     gatewayIP |-> Head(gws).IP,
                     localNodeConfiguredAsGateway |-> FALSE]
    IN [config EXCEPT !.gatewayConfig = gwc]

\* the calls f(endpointIP, dstCIDR, excludedCIDR, gwc) in the order they are made
\* when the matched endpoints are iterated in the order epOrder
forEachEndpointAndCIDR(config, epOrder) ==
    LET ForIP(ip) ==
            [i \in 1..Len(config.dstCIDRs) |->
                [endpointIP |-> ip, dstCIDR |-> config.dstCIDRs[i],
                 excludedCIDR |-> FALSE, gwc |-> config.gatewayConfig]]
            \o
            [i \in 1..Len(config.excludedCIDRs) |->
                [endpointIP |-> ip, dstCIDR |-> config.excludedCIDRs[i],
                 excludedCIDR |-> TRUE, gwc |-> config.gatewayConfig]]
        ForEp(id) ==
            LET ips == config.matchedEndpoints[id].ips
            IN Flatten([i \in 1..Len(ips) |-> ForIP(ips[i])])
    IN Flatten([i \in 1..Len(epOrder) |-> ForEp(epOrder[i])])

\* the calls f(endpointIP, cidr, gwc) over the effective destinations
forEachEndpointAndDestination(config, epOrder) ==
    LET cidrs == destinationMinusExcludedCIDRs(config)
        ForIP(ip) ==
            [i \in 1..Len(cidrs) |->
                [endpointIP |-> ip, dstCIDR |-> cidrs[i], gwc |-> config.gatewayConfig]]
        ForEp(id) ==
            LET ips == config.matchedEndpoints[id].ips
            IN Flatten([i \in 1..Len(ips) |-> ForIP(ips[i])])
    IN Flatten([i \in 1..Len(epOrder) |-> ForEp(epOrder[i])])

\* a getEndpointMetadata that accepts an endpoint without address
getEndpointMetadata_NeverFails(endpoint, identityLabels) ==
    <<[id |-> endpoint.id, ips |-> endpoint.ips, labels |-> identityLabels]>>

\* getEndpointMetadata: <<>> stands for the error (an endpoint without IPv4 address)
getEndpointMetadata(endpoint, identityLabels) ==
    IF endpoint.ips = <<>> THEN <<>>
    ELSE <<[id |-> endpoint.id, ips |-> endpoint.ips, labels |-> identityLabels]>>

(***************************************************************************)
(* Node names are strings, here sequences of character codes, compared as  *)
(* Go compares strings.                                                    *)
(***************************************************************************)
RECURSIVE NameLess(_, _)
NameLess(a, b) ==
    IF b = <<>> THEN FALSE
    ELSE IF a = <<>> THEN TRUE
    ELSE IF Head(a) # Head(b) THEN Head(a) < Head(b)
    ELSE NameLess(Tail(a), Tail(b))

\* the less function handed to sort.Slice in onChangeNodeLocked
nodeLess(n, m) == NameLess(n.Name, m.Name)

RECURSIVE InsertSorted(_, _)
InsertSorted(n, s) ==
    IF s = <<>> THEN <<n>>
    ELSE IF nodeLess(n, Head(s)) THEN <<n>> \o s
    ELSE <<Head(s)>> \o InsertSorted(n, Tail(s))

RECURSIVE sortSlice(_)
sortSlice(s) == IF s = <<>> THEN <<>> ELSE InsertSorted(Head(s), sortSlice(Tail(s)))

(***************************************************************************)
(* workqueue.ItemExponentialFailureRateLimiter.When                        *)
(***************************************************************************)
RateLimiterWhen(numFailures) ==
    IF numFailures >= 40 THEN RetryMaxDelay
    ELSE Min(RetryBaseDelay * Pow2(numFailures), RetryMaxDelay)

(***************************************************************************)
(* The state of the Manager and of its collaborators.                      *)
(***************************************************************************)
VARIABLES
    installRoutes,            \* Manager.installRoutes
    cacheSynced,              \* cacheStatus.Synchronized()
    syncPc,                   \* the goroutine of runReconciliationAfterK8sSync
    mutex,                    \* holder of Manager.Mutex: "free", "reconcile" or "worker"
    nodeDataStore,            \* node name -> Node
    nodes,                    \* the nodes slice
    policyConfigs,            \* policyID -> PolicyConfig
    policyConfigsBySourceIP,  \* source IP -> ids of the PolicyConfig objects listed
    staleConfigs,             \* policyID -> the listed object, once policyConfigs dropped it
    epDataStore,              \* endpointID -> endpointMetadata
    pendingEndpointEvents,    \* endpointID -> endpointEvent
    queue,                    \* endpointEventsQueue: the ids ready for Get, in order
    dirty,                    \* endpointEventsQueue: ids that need processing
    processing,               \* endpointEventsQueue: ids handed out by Get, before Done
    waitingForQueue,          \* endpointEventsQueue: ids delayed by AddRateLimited
    failures,                 \* the rate limiter's failure count per id
    identityCache,            \* the identities the allocator can resolve
    eventsBitmap,             \* Manager.eventsBitmap
    triggerPending,           \* reconciliationTrigger: a run is requested
    policyMap,                \* the egress policy map: key -> value
    ipRules,                  \* the egress gateway IP rules on the host
    ipRoutes,                 \* the IPv4 routes on the host
    rpc,                      \* where the trigger's goroutine is in TriggerFunc
    addTodo,                  \* addMissingEgressRules: the Update calls still to make
    delTodo,                  \* removeUnusedEgressRules: the Delete calls still to make
    shouldRetry,              \* reconcileLocked: shouldRetry
    wpc,                      \* where the worker of processCiliumEndpoints is
    wItem,                    \* the worker's endpointID
    wEvent,                   \* the worker's epEvent (and addEndpoint's)
    watcher,                  \* the endpoint handler between its map write and queue.Add
    run,                      \* what the current reconcileLocked run has done so far
    obs,                      \* what was observed of earlier runs and of the retries
    threadPc,                 \* goroutine -> the call it is in and the next statement
    pendingEndpointEventsLock,\* the RWMutex: its writer, its readers, the waiting writers
    ctxDone,                  \* the root context is cancelled
    shuttingDown,             \* endpointEventsQueue.ShutDown() was called
    stopPc                    \* where the OnStop hook is

vars == <<installRoutes, cacheSynced, syncPc, mutex, nodeDataStore, nodes, policyConfigs,
          policyConfigsBySourceIP, staleConfigs, epDataStore, pendingEndpointEvents,
          queue, dirty, processing, waitingForQueue, failures, identityCache,
          eventsBitmap, triggerPending, policyMap, ipRules, ipRoutes, rpc, addTodo,
          delTodo, shouldRetry, wpc, wItem, wEvent, watcher, run, obs, threadPc,
          pendingEndpointEventsLock, ctxDone, shuttingDown, stopPc>>

cacheVars == <<nodeDataStore, nodes, policyConfigs, policyConfigsBySourceIP, staleConfigs,
               epDataStore>>
queueVars == <<queue, dirty, processing, waitingForQueue, failures>>
workerVars == <<wpc, wItem, wEvent>>
hostVars == <<policyMap, ipRules, ipRoutes>>
reconcilerVars == <<rpc, addTodo, delTodo, shouldRetry, run>>
syncVars == <<cacheSynced, syncPc>>
lockVars == <<threadPc, pendingEndpointEventsLock>>
lifecycleVars == <<ctxDone, shuttingDown, stopPc>>
restVars == <<installRoutes, lockVars, lifecycleVars>>

\* what a reconcileLocked run has done so far (reset when a run begins):
\*   passed      the run got past the Synchronized() check
\*   clean       no handler and no worker step ran since the run before it ended,
\*               and no write of that run failed
\*   quiet       no handler and no worker step ran since the run before it ended
\*   updates     policyMap.Update calls made, deletes: policyMap.Delete calls made
\*   failed      a policyMap call of the run returned an error
\*   failedUpdates, failedDeletes   the keys of the calls that returned an error
\*   stable      the keys the map held when the run began that the caches still want
\*   hostLog     the netlink calls made, in order
\*   rulePasses  the addMissingIpRulesAndRoutes calls made, in order: isRetry, the
\*               number of netlink calls made before the call, and the number of
\*               netlink.RuleAdd calls of the pass that returned an error
NoRun ==
    [passed |-> FALSE, clean |-> FALSE, quiet |-> FALSE, updates |-> 0, deletes |-> 0,
     failed |-> FALSE, failedUpdates |-> {}, failedDeletes |-> {}, stable |-> {},
     hostLog |-> <<>>, rulePasses |-> <<>>]

\* what is remembered across runs:
\*   clean         a run that passed the check ended without a failed write, and no
\*                 handler ran since
\*   quiet         a run that passed the check ended, and no handler ran since
\*   installed     the policies whose current config a passed run has seen
\*   policyRT      deleted policy -> the keys it wanted in the last passed run
\*   epInstalled   the endpoints whose stored metadata a passed run has seen
\*   endpointRT    deleted endpoint -> the IPs it had in the last passed run
\*   delay, prevDelay, attempts   per pending endpoint id: the delays of the last two
\*                 AddRateLimited calls and the failed attempts since it is pending
\*   last          endpoint id -> the event of the last endpoint handler call for the
\*                 id and the type of the event of the call before it, kept until
\*                 the worker is done with the id
\*   ignored       <<id>> after an OnDeleteEgressPolicy(id) call that found no policy
\*                 with the id, until the next policy handler call or the end of
\*                 the next run
\*   policyCalls   policy id -> <<config>> of the last OnAddEgressPolicy call for the id,
\*                 or <<>> after a later OnDeleteEgressPolicy that found the policy
\*   nodeCalls     node name -> <<node>> of the last OnUpdateNode, <<>> after OnDeleteNode
\*   endpointCalls endpoint id -> the event of the last endpoint handler call, and
\*                 whether the worker has applied it
NoObs ==
    [clean |-> FALSE, quiet |-> FALSE, installed |-> {}, policyRT |-> EmptyMap,
     epInstalled |-> {},
     endpointRT |-> EmptyMap, delay |-> EmptyMap, prevDelay |-> EmptyMap,
     attempts |-> EmptyMap, last |-> EmptyMap, ignored |-> <<>>,
     policyCalls |-> EmptyMap, nodeCalls |-> EmptyMap, endpointCalls |-> EmptyMap]

\* the goroutines that call into the manager: the watcher of policies and nodes,
\* the watcher of endpoints, the endpoint worker, the trigger's goroutine and the
\* goroutine of runReconciliationAfterK8sSync
Threads == {"watcher", "endpoints", "worker", "reconcile", "sync"}

\* a goroutine outside of every call
Idle == [call |-> "", at |-> 0]

\* NewEgressGatewayManager: empty caches; the policy map and the host keep what an
\* earlier run of the agent left there
InitWith(routes, map0, rules0, routes0, identities) ==
    /\ installRoutes = routes
    /\ cacheSynced = FALSE
    /\ syncPc = "wait"
    /\ mutex = "free"
    /\ nodeDataStore = EmptyMap
    /\ nodes = <<>>
    /\ policyConfigs = EmptyMap
    /\ policyConfigsBySourceIP = EmptyMap
    /\ staleConfigs = EmptyMap
    /\ epDataStore = EmptyMap
    /\ pendingEndpointEvents = EmptyMap
    /\ queue = <<>>
    /\ dirty = {}
    /\ processing = {}
    /\ waitingForQueue = {}
    /\ failures = EmptyMap
    /\ identityCache = identities
    /\ eventsBitmap = 0
    /\ triggerPending = FALSE
    /\ policyMap = map0
    /\ ipRules = rules0
    /\ ipRoutes = routes0
    /\ rpc = "idle"
    /\ addTodo = <<>>
    /\ delTodo = {}
    /\ shouldRetry = FALSE
    /\ wpc = "get"
    /\ wItem = ""
    /\ wEvent = <<>>
    /\ watcher = <<>>
    /\ run = NoRun
    /\ obs = NoObs
    /\ threadPc = [t \in Threads |-> Idle]
    /\ pendingEndpointEventsLock = [writer |-> "", readers |-> {}, waiting |-> {}]
    /\ ctxDone = FALSE
    /\ shuttingDown = FALSE
    /\ stopPc = "running"

(***************************************************************************)
(* Reading the caches.                                                     *)
(***************************************************************************)
\* the PolicyConfig object a policyConfigsBySourceIP entry points to
IndexedConfig(p) == IF p \in DOMAIN staleConfigs THEN staleConfigs[p] ELSE policyConfigs[p]

IndexedPolicies(sourceIP) ==
    IF sourceIP \in DOMAIN policyConfigsBySourceIP
    THEN {IndexedConfig(p) : p \in policyConfigsBySourceIP[sourceIP]}
    ELSE {}

\* policyMatches with the matchPolicy closure of removeUnusedEgressRules
policyMatches(policyKey, policyVal) ==
    \E policy \in IndexedPolicies(policyKey.SourceIP) :
        \E id \in DOMAIN policy.matchedEndpoints :
            \E endpointIP \in Range(policy.matchedEndpoints[id].ips) :
                /\ endpointIP = policyKey.SourceIP
                /\ \/ \E dstCIDR \in Range(policy.dstCIDRs) :
                        /\ policyKey.DestCIDR = dstCIDR
                        /\ policyVal.EgressIP = policy.gatewayConfig.egressIP
                        /\ policyVal.GatewayIP = policy.gatewayConfig.gatewayIP
                   \/ \E excludedCIDR \in Range(policy.excludedCIDRs) :
                        /\ policyKey.DestCIDR = excludedCIDR
                        /\ policyVal.EgressIP = policy.gatewayConfig.egressIP
                        /\ policyVal.GatewayIP = ExcludedCIDRIPv4

\* a match that finds no policy for any rule
policyMatchesMinusExcludedCIDRs_Never(ipRule) == FALSE

\* policyMatchesMinusExcludedCIDRs with the matchFunc closure of removeUnusedIpRulesAndRoutes
policyMatchesMinusExcludedCIDRs(ipRule) ==
    \E policy \in IndexedPolicies(ipRule.Src) :
        \E id \in DOMAIN policy.matchedEndpoints :
            \E endpointIP \in Range(policy.matchedEndpoints[id].ips) :
                /\ endpointIP = ipRule.Src
                /\ \E cidr \in Range(destinationMinusExcludedCIDRs(policy)) :
                        /\ installRoutes
                        /\ policy.gatewayConfig.localNodeConfiguredAsGateway
                        /\ ipRule.Dst = cidr

egressGatewayRoutingTableIdx(ifaceIndex) == RouteTableEgressGatewayInterfacesOffset + ifaceIndex

(***************************************************************************)
(* runReconciliationAfterK8sSync                                           *)
(***************************************************************************)
\* the k8s caches are synced: cacheStatus is closed
K8sSyncDone ==
    /\ syncPc = "wait"
    /\ cacheSynced' = TRUE
    /\ syncPc' = "setbit"
    /\ UNCHANGED <<restVars, mutex, cacheVars, pendingEndpointEvents, queueVars,
                   identityCache, eventsBitmap, triggerPending, hostVars, reconcilerVars,
                   workerVars, watcher, obs>>

SyncSetEventBitmap ==
    /\ syncPc = "setbit"
    /\ mutex = "free"
    /\ eventsBitmap' = setEventBitmap(eventsBitmap, eventK8sSyncDone)
    /\ syncPc' = "trigger"
    /\ UNCHANGED <<restVars, cacheSynced, mutex, cacheVars, pendingEndpointEvents,
                   queueVars, identityCache, triggerPending, hostVars, reconcilerVars,
                   workerVars, watcher, obs>>

SyncTrigger ==
    /\ syncPc = "trigger"
    /\ triggerPending' = TRUE
    /\ syncPc' = "done"
    /\ UNCHANGED <<restVars, cacheSynced, mutex, cacheVars, pendingEndpointEvents,
                   queueVars, identityCache, eventsBitmap, hostVars, reconcilerVars,
                   workerVars, watcher, obs>>

(***************************************************************************)
(* Policy and node event handlers (each runs under the Manager mutex).     *)
(***************************************************************************)
IsListed(p) == \E ip \in DOMAIN policyConfigsBySourceIP : p \in policyConfigsBySourceIP[ip]

\* policyConfigs drops its object for id: a listed object stays reachable from the index
DropConfig(id) ==
    IF id \in DOMAIN policyConfigs /\ id \notin DOMAIN staleConfigs /\ IsListed(id)
    THEN MapPut(staleConfigs, id, policyConfigs[id])
    ELSE staleConfigs

\* the keys of the policy map a PolicyConfig asks for
ConfigKeys(config) ==
    {[SourceIP |-> ip, DestCIDR |-> c] :
        ip \in UNION {Range(config.matchedEndpoints[e].ips) : e \in DOMAIN config.matchedEndpoints},
        c \in Range(config.dstCIDRs) \cup Range(config.excludedCIDRs)}

OnAddEgressPolicy(config) ==
    /\ mutex = "free"
    /\ policyConfigs' =
          MapPut(policyConfigs, config.id, updateMatchedEndpointIDs(config, epDataStore))
    /\ staleConfigs' = DropConfig(config.id)
    /\ eventsBitmap' = setEventBitmap(eventsBitmap, eventAddPolicy)
    /\ triggerPending' = TRUE
    /\ obs' = [obs EXCEPT !.clean = FALSE, !.quiet = FALSE,
                          !.installed = @ \ {config.id},
                          !.policyRT = MapDel(@, config.id),
                          !.ignored = <<>>,
                          !.policyCalls = MapPut(@, config.id, <<config>>)]
    /\ UNCHANGED <<restVars, syncVars, mutex, nodeDataStore, nodes,
                   policyConfigsBySourceIP, epDataStore, pendingEndpointEvents, queueVars,
                   identityCache, hostVars, reconcilerVars, workerVars, watcher>>

\* a handler that takes every id for the id of a policy it holds
policyIsKnown_Always(configs, configID) == TRUE

\* manager.policyConfigs[configID] != nil
policyIsKnown(configs, configID) == configID \in DOMAIN configs

OnDeleteEgressPolicy(configID) ==
    /\ mutex = "free"
    /\ IF ~policyIsKnown(policyConfigs, configID)
       THEN /\ obs' = [obs EXCEPT !.ignored = <<configID>>]
            /\ UNCHANGED <<policyConfigs, staleConfigs, eventsBitmap, triggerPending>>
       ELSE /\ policyConfigs' = MapDel(policyConfigs, configID)
            /\ staleConfigs' = DropConfig(configID)
            /\ eventsBitmap' = setEventBitmap(eventsBitmap, eventDeletePolicy)
            /\ triggerPending' = TRUE
            /\ obs' = [obs EXCEPT
                        !.clean = FALSE, !.quiet = FALSE,
                        !.installed = @ \ {configID},
                        !.policyRT = IF configID \in obs.installed
                                     THEN MapPut(@, configID, ConfigKeys(policyConfigs[configID]))
                                     ELSE @,
                        !.ignored = IF configID \in DOMAIN policyConfigs
                                    THEN <<>> ELSE <<configID>>,
                        !.policyCalls = IF configID \in DOMAIN policyConfigs
                                        THEN MapPut(@, configID, <<>>) ELSE @]
    /\ UNCHANGED <<restVars, syncVars, mutex, nodeDataStore, nodes,
                   policyConfigsBySourceIP, epDataStore, pendingEndpointEvents, queueVars,
                   identityCache, hostVars, reconcilerVars, workerVars, watcher>>

\* sort.Slice(manager.nodes, less by Name)
\* onChangeNodeLocked without the sort.Slice call
sortNodes_Unsorted(s) == s

sortNodes(s) == sortSlice(s)

\* onChangeNodeLocked, reading the node store the handler has just written
onChangeNodeLocked(e) ==
    /\ \E order \in Perms(DOMAIN nodeDataStore') :
          nodes' = sortNodes([i \in 1..Len(order) |-> nodeDataStore'[order[i]]])
    /\ eventsBitmap' = setEventBitmap(eventsBitmap, e)
    /\ triggerPending' = TRUE

OnUpdateNode(node) ==
    /\ mutex = "free"
    /\ nodeDataStore' = MapPut(nodeDataStore, node.Name, node)
    /\ onChangeNodeLocked(eventUpdateNode)
    /\ obs' = [obs EXCEPT !.clean = FALSE, !.quiet = FALSE,
                          !.nodeCalls = MapPut(@, node.Name, <<node>>)]
    /\ UNCHANGED <<restVars, syncVars, mutex, policyConfigs, policyConfigsBySourceIP,
                   staleConfigs, epDataStore, pendingEndpointEvents, queueVars,
                   identityCache, hostVars, reconcilerVars, workerVars, watcher>>

OnDeleteNode(node) ==
    /\ mutex = "free"
    /\ nodeDataStore' = MapDel(nodeDataStore, node.Name)
    /\ onChangeNodeLocked(eventDeleteNode)
    /\ obs' = [obs EXCEPT !.clean = FALSE, !.quiet = FALSE,
                          !.nodeCalls = MapPut(@, node.Name, <<>>)]
    /\ UNCHANGED <<restVars, syncVars, mutex, policyConfigs, policyConfigsBySourceIP,
                   staleConfigs, epDataStore, pendingEndpointEvents, queueVars,
                   identityCache, hostVars, reconcilerVars, workerVars, watcher>>

(***************************************************************************)
(* endpointEventsQueue: a workqueue.RateLimitingInterface.                 *)
(***************************************************************************)
\* Add(id): <<queue, dirty>> after the call; a queue that is shutting down ignores it
QueueAdd(id) ==
    IF shuttingDown \/ id \in dirty THEN <<queue, dirty>>
    ELSE IF id \in processing THEN <<queue, dirty \cup {id}>>
    ELSE <<Append(queue, id), dirty \cup {id}>>

NumFailures(id) == IF id \in DOMAIN failures THEN failures[id] ELSE 0

\* the timer of an AddRateLimited(id) call fires: the delaying queue calls Add(id)
DelayElapsed(id) ==
    /\ id \in waitingForQueue
    /\ waitingForQueue' = waitingForQueue \ {id}
    /\ queue' = QueueAdd(id)[1]
    /\ dirty' = QueueAdd(id)[2]
    /\ UNCHANGED <<restVars, syncVars, mutex, cacheVars, pendingEndpointEvents,
                   processing, failures, identityCache, eventsBitmap, triggerPending,
                   hostVars, reconcilerVars, workerVars, watcher, obs>>

(***************************************************************************)
(* Endpoint event handlers: the map write under pendingEndpointEventsLock, *)
(* then endpointEventsQueue.Add(id).                                       *)
(***************************************************************************)
\* a handler that leaves the entry an earlier call has written for the id
storePendingEvent_KeepsFirst(pending, id, event) ==
    IF id \in DOMAIN pending THEN pending ELSE MapPut(pending, id, event)

\* a handler that replaces the map by one that holds the new entry alone
storePendingEvent_DropsOthers(pending, id, event) == MapPut(EmptyMap, id, event)

\* manager.pendingEndpointEvents[id] = endpointEvent{...}
storePendingEvent(pending, id, event) == MapPut(pending, id, event)

\* obs.last after a handler call for id with event
LastCall(id, event) ==
    MapPut(obs.last, id,
           [event |-> event,
            before |-> IF id \in DOMAIN obs.last
                       THEN obs.last[id].event.eventType ELSE eventNone])

OnUpdateEndpoint(endpoint) ==
    /\ watcher = <<>>
    /\ pendingEndpointEvents' =
          storePendingEvent(pendingEndpointEvents, endpoint.id,
                 [eventType |-> eventUpdateEndpoint, endpoint |-> <<endpoint>>])
    /\ watcher' = <<endpoint.id>>
    /\ obs' = [obs EXCEPT
                !.clean = FALSE, !.quiet = FALSE,
                !.last = LastCall(endpoint.id, [eventType |-> eventUpdateEndpoint,
                                                endpoint |-> <<endpoint>>]),
                !.endpointCalls =
                    MapPut(@, endpoint.id,
                           [event |-> [eventType |-> eventUpdateEndpoint,
                                       endpoint |-> <<endpoint>>],
                            applied |-> FALSE])]
    /\ UNCHANGED <<restVars, syncVars, mutex, cacheVars, queueVars, identityCache,
                   eventsBitmap, triggerPending, hostVars, reconcilerVars, workerVars>>

OnDeleteEndpoint(endpoint) ==
    /\ watcher = <<>>
    /\ pendingEndpointEvents' =
          storePendingEvent(pendingEndpointEvents, endpoint.id,
                 [eventType |-> eventDeleteEndpoint, endpoint |-> <<>>])
    /\ watcher' = <<endpoint.id>>
    /\ obs' = [obs EXCEPT
                !.clean = FALSE, !.quiet = FALSE,
                !.last = LastCall(endpoint.id, [eventType |-> eventDeleteEndpoint,
                                                endpoint |-> <<>>]),
                !.endpointCalls =
                    MapPut(@, endpoint.id,
                           [event |-> [eventType |-> eventDeleteEndpoint, endpoint |-> <<>>],
                            applied |-> FALSE])]
    /\ UNCHANGED <<restVars, syncVars, mutex, cacheVars, queueVars, identityCache,
                   eventsBitmap, triggerPending, hostVars, reconcilerVars, workerVars>>

\* the last statement of OnUpdateEndpoint and of OnDeleteEndpoint
HandlerQueueAdd ==
    /\ watcher # <<>>
    /\ queue' = QueueAdd(watcher[1])[1]
    /\ dirty' = QueueAdd(watcher[1])[2]
    /\ watcher' = <<>>
    /\ UNCHANGED <<restVars, syncVars, mutex, cacheVars, pendingEndpointEvents,
                   processing, waitingForQueue, failures, identityCache, eventsBitmap,
                   triggerPending, hostVars, reconcilerVars, workerVars, obs>>

(***************************************************************************)
(* The identity allocator.                                                 *)
(***************************************************************************)
\* the labels of a numeric identity, once the allocator knows it
IdentityLabels(identity) == IF identity = 1 THEN "app" ELSE "db"

\* a getIdentityLabels that returns labels whatever the allocator answers
getIdentityLabels_IgnoresErrors(securityIdentity, waitOk) ==
    <<IdentityLabels(securityIdentity)>>

\* getIdentityLabels: <<>> stands for the error; waitOk: WaitForInitialGlobalIdentities
\* returned no error
getIdentityLabels(securityIdentity, waitOk) ==
    IF ~waitOk THEN <<>>
    ELSE IF securityIdentity \notin identityCache THEN <<>>
    ELSE <<IdentityLabels(securityIdentity)>>

\* the allocator learns an identity
IdentityResolves(identity) ==
    /\ identity \notin identityCache
    /\ identityCache' = identityCache \cup {identity}
    /\ UNCHANGED <<restVars, syncVars, mutex, cacheVars, pendingEndpointEvents,
                   queueVars, eventsBitmap, triggerPending, hostVars, reconcilerVars,
                   workerVars, watcher, obs>>

(***************************************************************************)
(* processCiliumEndpoints: the worker goroutine.                           *)
(***************************************************************************)
\* item, shutdown := retryQueue.Get()
WorkerGet ==
    /\ wpc = "get"
    /\ queue # <<>>
    /\ wItem' = Head(queue)
    /\ queue' = Tail(queue)
    /\ processing' = processing \cup {Head(queue)}
    /\ dirty' = dirty \ {Head(queue)}
    /\ wpc' = "read"
    /\ UNCHANGED <<restVars, syncVars, mutex, cacheVars, pendingEndpointEvents,
                   waitingForQueue, failures, identityCache, eventsBitmap, triggerPending,
                   hostVars, reconcilerVars, wEvent, watcher, obs>>

\* epEvent, ok := manager.pendingEndpointEvents[endpointID], and the switch on its type
WorkerReadPending ==
    /\ wpc = "read"
    /\ wEvent' = IF wItem \in DOMAIN pendingEndpointEvents
                 THEN <<pendingEndpointEvents[wItem]>> ELSE <<>>
    /\ wpc' = IF wItem \notin DOMAIN pendingEndpointEvents THEN "check"
              ELSE IF pendingEndpointEvents[wItem].eventType = eventUpdateEndpoint
              THEN "addEndpoint"
              ELSE IF pendingEndpointEvents[wItem].eventType = eventDeleteEndpoint
              THEN "deleteEndpoint"
              ELSE "check"
    /\ UNCHANGED <<restVars, syncVars, mutex, cacheVars, pendingEndpointEvents,
                   queueVars, identityCache, eventsBitmap, triggerPending, hostVars,
                   reconcilerVars, wItem, watcher, obs>>

\* obs.endpointCalls once the worker has removed the pending entry of its id and
\* applied the event it read: the last call for the id is applied if that is its event
WorkerApplied(calls) ==
    IF wItem \in DOMAIN calls
    THEN [calls EXCEPT ![wItem].applied = wEvent = <<calls[wItem].event>>]
    ELSE calls

\* addEndpoint up to endpoint := epEvent.endpoint and the logger's endpoint.Name
AddEndpointBegin ==
    /\ wpc = "addEndpoint"
    /\ mutex = "free"
    /\ IF wItem \notin DOMAIN pendingEndpointEvents
       THEN /\ wpc' = "check"
            /\ UNCHANGED <<mutex, wEvent>>
       ELSE /\ wEvent' = <<pendingEndpointEvents[wItem]>>
            /\ mutex' = "worker"
            /\ wpc' = IF pendingEndpointEvents[wItem].endpoint = <<>>
                      THEN "panic" ELSE "getIdentityLabels"
    /\ UNCHANGED <<restVars, syncVars, cacheVars, pendingEndpointEvents, queueVars,
                   identityCache, eventsBitmap, triggerPending, hostVars, reconcilerVars,
                   wItem, watcher, obs>>

\* the rest of addEndpoint; waitOk: WaitForInitialGlobalIdentities returned no error
AddEndpointFinish(waitOk) ==
    /\ wpc = "getIdentityLabels"
    /\ LET endpoint == wEvent[1].endpoint[1]
           identityLabels == getIdentityLabels(endpoint.identity, waitOk)
           epData == getEndpointMetadata(endpoint, identityLabels[1])
       IN IF identityLabels = <<>>
          THEN UNCHANGED <<pendingEndpointEvents, epDataStore, eventsBitmap,
                           triggerPending, obs>>
          ELSE /\ pendingEndpointEvents' = MapDel(pendingEndpointEvents, wItem)
               /\ IF epData = <<>>
                  THEN /\ UNCHANGED <<epDataStore, eventsBitmap, triggerPending>>
                       /\ obs' = [obs EXCEPT !.endpointCalls = WorkerApplied(@),
                                             !.delay = MapDel(@, wItem),
                                             !.prevDelay = MapDel(@, wItem),
                                             !.attempts = MapDel(@, wItem)]
                  ELSE /\ epDataStore' = MapPut(epDataStore, epData[1].id, epData[1])
                       /\ eventsBitmap' = setEventBitmap(eventsBitmap, eventUpdateEndpoint)
                       /\ triggerPending' = TRUE
                       /\ obs' = [obs EXCEPT !.clean = FALSE, !.quiet = FALSE,
                                             !.epInstalled = @ \ {epData[1].id},
                                             !.endpointRT = MapDel(@, epData[1].id),
                                             !.endpointCalls = WorkerApplied(@),
                                             !.delay = MapDel(@, wItem),
                                             !.prevDelay = MapDel(@, wItem),
                                             !.attempts = MapDel(@, wItem)]
    /\ mutex' = "free"
    /\ wpc' = "check"
    /\ UNCHANGED <<restVars, syncVars, nodeDataStore, nodes, policyConfigs,
                   policyConfigsBySourceIP, staleConfigs, queueVars, identityCache,
                   hostVars, reconcilerVars, wItem, wEvent, watcher>>

\* a deleteEndpoint that neither sets its event bit nor fires the trigger
deleteEndpoint_Silent ==
    /\ wpc = "deleteEndpoint"
    /\ mutex = "free"
    /\ epDataStore' = MapDel(epDataStore, wItem)
    /\ pendingEndpointEvents' = MapDel(pendingEndpointEvents, wItem)
    /\ obs' = [obs EXCEPT !.clean = FALSE, !.quiet = FALSE]
    /\ wpc' = "check"
    /\ UNCHANGED <<restVars, syncVars, mutex, nodeDataStore, nodes, policyConfigs,
                   policyConfigsBySourceIP, staleConfigs, queueVars, identityCache,
                   eventsBitmap, triggerPending, hostVars, reconcilerVars, wItem, wEvent,
                   watcher>>

deleteEndpoint ==
    /\ wpc = "deleteEndpoint"
    /\ mutex = "free"
    /\ epDataStore' = MapDel(epDataStore, wItem)
    /\ pendingEndpointEvents' = MapDel(pendingEndpointEvents, wItem)
    /\ eventsBitmap' = setEventBitmap(eventsBitmap, eventDeleteEndpoint)
    /\ triggerPending' = TRUE
    /\ obs' = [obs EXCEPT
                !.clean = FALSE, !.quiet = FALSE,
                !.epInstalled = @ \ {wItem},
                !.endpointRT = IF wItem \in obs.epInstalled
                               THEN MapPut(@, wItem, Range(epDataStore[wItem].ips))
                               ELSE @,
                !.endpointCalls = WorkerApplied(@),
                !.delay = MapDel(@, wItem),
                !.prevDelay = MapDel(@, wItem),
                !.attempts = MapDel(@, wItem)]
    /\ wpc' = "check"
    /\ UNCHANGED <<restVars, syncVars, mutex, nodeDataStore, nodes, policyConfigs,
                   policyConfigsBySourceIP, staleConfigs, queueVars, identityCache,
                   hostVars, reconcilerVars, wItem, wEvent, watcher>>

\* the worker forgetting an id whose event is still pending
requeueIfPending_Never(pending) == FALSE

\* the worker giving up an id after sixteen failed attempts
requeueIfPending_SixteenAttempts(pending) ==
    pending /\ (IF wItem \in DOMAIN failures THEN failures[wItem] ELSE 0) < 16

\* the worker re-enqueueing every id it has processed
requeueIfPending_Always(pending) == TRUE

\* whether the worker re-enqueues an id whose event is still pending
requeueIfPending(pending) == pending

\* endpointEventIsPending, then AddRateLimited(id) or Forget(id)
WorkerRequeue ==
    /\ wpc = "check"
    /\ IF requeueIfPending(wItem \in DOMAIN pendingEndpointEvents)
       THEN /\ failures' = MapPut(failures, wItem, Min(NumFailures(wItem) + 1, MaxAttempts))
            /\ waitingForQueue' = IF shuttingDown THEN waitingForQueue
                                  ELSE waitingForQueue \cup {wItem}
            /\ obs' = [obs EXCEPT
                        !.delay = MapPut(@, wItem, RateLimiterWhen(NumFailures(wItem))),
                        !.prevDelay = MapPut(@, wItem,
                                         IF wItem \in DOMAIN obs.delay
                                         THEN obs.delay[wItem] ELSE 0),
                        !.attempts = MapPut(@, wItem,
                                         IF wItem \in DOMAIN obs.attempts
                                         THEN Min(obs.attempts[wItem] + 1, MaxAttempts)
                                         ELSE 1)]
       ELSE /\ failures' = MapDel(failures, wItem)
            /\ UNCHANGED <<waitingForQueue, obs>>
    /\ wpc' = "done"
    /\ UNCHANGED <<restVars, syncVars, mutex, cacheVars, pendingEndpointEvents,
                   queue, dirty, processing, identityCache, eventsBitmap, triggerPending,
                   hostVars, reconcilerVars, wItem, wEvent, watcher>>

\* manager.endpointEventsQueue.Done(endpointID)
WorkerDone ==
    /\ wpc = "done"
    /\ processing' = processing \ {wItem}
    /\ queue' = IF wItem \in dirty THEN Append(queue, wItem) ELSE queue
    /\ wpc' = "get"
    /\ wItem' = ""
    /\ wEvent' = <<>>
    /\ obs' = [obs EXCEPT !.last = IF wItem \in DOMAIN pendingEndpointEvents
                                   THEN @ ELSE MapDel(@, wItem)]
    /\ UNCHANGED <<restVars, syncVars, mutex, cacheVars, pendingEndpointEvents,
                   dirty, waitingForQueue, failures, identityCache, eventsBitmap,
                   triggerPending, hostVars, reconcilerVars, watcher>>

(***************************************************************************)
(* reconcileLocked: index refresh and gateway regeneration.                *)
(***************************************************************************)
\* reconcileLocked removing the unused egress rules before it adds the missing ones
reconcileSteps_RemoveFirst ==
    <<"ipRulesAndRoutes", "removeUnusedEgressRules", "addMissingEgressRules">>

\* the calls reconcileLocked makes after the refresh of the indices, in order
reconcileSteps == <<"ipRulesAndRoutes", "addMissingEgressRules", "removeUnusedEgressRules">>

\* the step that follows step, "clear" (the events bitmap) after the last one
StepAfter(step) ==
    LET i == CHOOSE j \in 1..Len(reconcileSteps) : reconcileSteps[j] = step
    IN IF i = Len(reconcileSteps) THEN "clear" ELSE reconcileSteps[i + 1]

\* reconcileLocked refreshing the matched endpoints on endpoint updates only
refreshesMatchedEndpoints_NotOnDelete(bitmap) ==
    \/ eventBitmapIsSet(bitmap, {eventUpdateEndpoint})
    \/ eventBitmapIsSet(bitmap, {eventK8sSyncDone})

\* reconcileLocked never re-evaluating the matched endpoints
refreshesMatchedEndpoints_Never(bitmap) == FALSE

\* whether reconcileLocked calls updatePoliciesMatchedEndpointIDs
refreshesMatchedEndpoints(bitmap) ==
    \/ eventBitmapIsSet(bitmap, {eventUpdateEndpoint, eventDeleteEndpoint})
    \/ eventBitmapIsSet(bitmap, {eventK8sSyncDone})

\* reconcileLocked without its second if: policy events refresh nothing
refreshesBySourceIP_NotOnPolicyEvents(bitmap) ==
    \/ eventBitmapIsSet(bitmap, {eventUpdateEndpoint, eventDeleteEndpoint})
    \/ eventBitmapIsSet(bitmap, {eventK8sSyncDone})

\* whether reconcileLocked calls updatePoliciesBySourceIP
refreshesBySourceIP(bitmap) ==
    \/ eventBitmapIsSet(bitmap, {eventUpdateEndpoint, eventDeleteEndpoint})
    \/ eventBitmapIsSet(bitmap, {eventAddPolicy, eventDeletePolicy})
    \/ eventBitmapIsSet(bitmap, {eventK8sSyncDone})

updatePoliciesMatchedEndpointIDs(configs, store) ==
    [p \in DOMAIN configs |-> updateMatchedEndpointIDs(configs[p], store)]

MatchedIPs(config) ==
    UNION {Range(config.matchedEndpoints[e].ips) : e \in DOMAIN config.matchedEndpoints}

\* updatePoliciesBySourceIP without the reset of the map: the old keys stay
updatePoliciesBySourceIP_KeepsOldKeys(configs) ==
    [ip \in DOMAIN policyConfigsBySourceIP \cup
            UNION {MatchedIPs(configs[p]) : p \in DOMAIN configs} |->
        {p \in DOMAIN configs : ip \in MatchedIPs(configs[p])}
        \cup (IF ip \in DOMAIN policyConfigsBySourceIP
              THEN policyConfigsBySourceIP[ip] \cap DOMAIN configs ELSE {})]

updatePoliciesBySourceIP(configs) ==
    [ip \in UNION {MatchedIPs(configs[p]) : p \in DOMAIN configs} |->
        {p \in DOMAIN configs : ip \in MatchedIPs(configs[p])}]

regenerateGatewayConfigs(configs, nodeSeq) ==
    [p \in DOMAIN configs |-> regenerateGatewayConfig(configs[p], nodeSeq)]

\* the trigger's goroutine takes a requested run and calls TriggerFunc
TriggerFire ==
    /\ rpc = "idle"
    /\ triggerPending
    /\ triggerPending' = FALSE
    /\ rpc' = "lock"
    /\ UNCHANGED <<restVars, syncVars, mutex, cacheVars, pendingEndpointEvents,
                   queueVars, identityCache, eventsBitmap, hostVars, addTodo, delTodo,
                   shouldRetry, run, workerVars, watcher, obs>>

\* a check that takes the caches for synchronized from the start
Synchronized_Always(status) == TRUE

\* manager.cacheStatus.Synchronized()
Synchronized(status) == status

\* manager.Lock(), the Synchronized() check, the refresh of the indices and
\* regenerateGatewayConfigs
ReconcileBegin ==
    /\ rpc = "lock"
    /\ mutex = "free"
    /\ IF ~Synchronized(cacheSynced)
       THEN /\ rpc' = "idle"
            /\ UNCHANGED <<mutex, policyConfigs, policyConfigsBySourceIP, staleConfigs, run>>
       ELSE LET matched == IF refreshesMatchedEndpoints(eventsBitmap)
                           THEN updatePoliciesMatchedEndpointIDs(policyConfigs, epDataStore)
                           ELSE policyConfigs
                configs == regenerateGatewayConfigs(matched, nodes)
            IN /\ policyConfigs' = configs
               /\ policyConfigsBySourceIP' =
                     IF refreshesBySourceIP(eventsBitmap)
                     THEN updatePoliciesBySourceIP(matched)
                     ELSE policyConfigsBySourceIP
               /\ staleConfigs' =
                     IF refreshesBySourceIP(eventsBitmap) THEN EmptyMap ELSE staleConfigs
               /\ mutex' = "reconcile"
               /\ rpc' = reconcileSteps[1]
               /\ run' = [NoRun EXCEPT
                            !.passed = TRUE,
                            !.clean = obs.clean,
                            !.quiet = obs.quiet,
                            !.stable = DOMAIN policyMap \cap
                                       UNION {ConfigKeys(configs[p]) : p \in DOMAIN configs}]
    /\ UNCHANGED <<restVars, syncVars, nodeDataStore, nodes, epDataStore,
                   pendingEndpointEvents, queueVars, identityCache, eventsBitmap,
                   triggerPending, hostVars, addTodo, delTodo, shouldRetry, workerVars,
                   watcher, obs>>

\* an order of the matched endpoints for every policy (map iteration)
EndpointOrders(configs) ==
    {f \in [DOMAIN configs ->
                UNION {Perms(DOMAIN configs[p].matchedEndpoints) : p \in DOMAIN configs}] :
        \A p \in DOMAIN configs : f[p] \in Perms(DOMAIN configs[p].matchedEndpoints)}

(***************************************************************************)
(* IP rules and routes.  The host is [rules, routes, log, retry, passes]:  *)
(* the egress gateway rules [Src, Dst, Table], the routes [LinkIndex,      *)
(* Table], the netlink calls made so far, the shouldRetry result and the   *)
(* addMissingIpRulesAndRoutes calls made so far.                           *)
(***************************************************************************)
newEgressIpRule(endpointIP, dstCIDR, table) ==
    [Src |-> endpointIP, Dst |-> dstCIDR, Table |-> table]

egressIPRuleMatches(ipRule, endpointIP, dstCIDR) ==
    ipRule.Src = endpointIP /\ ipRule.Dst = dstCIDR

\* a failed netlink.RuleAdd that never asks for the retry
shouldRetryAfter_Never(isRetry, retry) == retry

\* shouldRetry after a netlink.RuleAdd call of the pass returned an error
shouldRetryAfter(isRetry, retry) == IF isRetry THEN retry ELSE TRUE

\* the addIPRulesForConfig closure over the calls of forEachEndpointAndDestination;
\* netlink.RuleAdd fails for the rules in failing and for a rule that exists
RECURSIVE addIPRulesForConfig(_, _, _, _, _, _)
addIPRulesForConfig(calls, listed, table, host, failing, isRetry) ==
    IF calls = <<>> THEN host
    ELSE LET c == Head(calls)
             newRule == newEgressIpRule(c.endpointIP, c.dstCIDR, table)
             next ==
                IF \E r \in listed : egressIPRuleMatches(r, c.endpointIP, c.dstCIDR)
                THEN host
                ELSE IF newRule \in failing \/ newRule \in host.rules
                THEN [host EXCEPT !.log = Append(@, "RuleAdd"),
                                  !.retry = shouldRetryAfter(isRetry, @),
                                  !.passes[Len(host.passes)].errors = @ + 1]
                ELSE [host EXCEPT !.log = Append(@, "RuleAdd"), !.rules = @ \cup {newRule}]
         IN addIPRulesForConfig(Tail(calls), listed, table, next, failing, isRetry)

\* the loop over manager.policyConfigs of addMissingIpRulesAndRoutes
RECURSIVE addIpRulesAndRoutesForPolicies(_, _, _, _, _)
addIpRulesAndRoutesForPolicies(policyOrder, epOrders, host, failing, isRetry) ==
    IF policyOrder = <<>> THEN host
    ELSE LET policyConfig == policyConfigs[Head(policyOrder)]
             gwc == policyConfig.gatewayConfig
             routingTableIdx == egressGatewayRoutingTableIdx(gwc.ifaceIndex)
             listed == {r \in host.rules : r.Table = routingTableIdx}
             added == addIPRulesForConfig(
                          forEachEndpointAndDestination(policyConfig, epOrders[Head(policyOrder)]),
                          listed, routingTableIdx,
                          [host EXCEPT !.log = Append(@, "RuleList")], failing, isRetry)
             routed == [added EXCEPT
                          !.log = Append(@, "RouteAdd"),
                          !.routes = @ \cup {[LinkIndex |-> gwc.ifaceIndex,
                                              Table |-> routingTableIdx]}]
             next == IF ~gwc.localNodeConfiguredAsGateway
                        \/ DOMAIN policyConfig.matchedEndpoints = {}
                     THEN host ELSE routed
         IN addIpRulesAndRoutesForPolicies(Tail(policyOrder), epOrders, next, failing, isRetry)

removeUnusedIpRulesAndRoutes(host) ==
    LET unusedRules == {r \in host.rules : ~policyMatchesMinusExcludedCIDRs(r)}
        activeEgressGwIfaceIndexes ==
            {policyConfigs[p].gatewayConfig.ifaceIndex :
                p \in {q \in DOMAIN policyConfigs :
                          /\ DOMAIN policyConfigs[q].matchedEndpoints # {}
                          /\ policyConfigs[q].gatewayConfig.localNodeConfiguredAsGateway}}
        unusedRoutes ==
            {rt \in host.routes :
                /\ rt.Table = egressGatewayRoutingTableIdx(rt.LinkIndex)
                /\ rt.LinkIndex \notin activeEgressGwIfaceIndexes}
    IN [host EXCEPT
          !.rules = @ \ unusedRules,
          !.routes = @ \ unusedRoutes,
          !.log = @ \o <<"RuleList">>
                    \o [i \in 1..Cardinality(unusedRules) |-> "RuleDel"]
                    \o <<"RouteList">>
                    \o [i \in 1..Cardinality(unusedRoutes) |-> "RouteDel"]]

\* the host when an addMissingIpRulesAndRoutes(isRetry) call begins
BeginPass(host, isRetry) ==
    [host EXCEPT !.passes = Append(@, [isRetry |-> isRetry, at |-> Len(host.log),
                                       errors |-> 0])]

\* an add pass that makes the removal pass first
addMissingIpRulesAndRoutes_AfterRemoval(isRetry, policyOrder, epOrders, host, failing) ==
    addIpRulesAndRoutesForPolicies(policyOrder, epOrders,
                                   BeginPass(removeUnusedIpRulesAndRoutes(host), isRetry),
                                   failing, isRetry)

\* addMissingIpRulesAndRoutes without the installRoutes check
addMissingIpRulesAndRoutes_Unguarded(isRetry, policyOrder, epOrders, host, failing) ==
    addIpRulesAndRoutesForPolicies(policyOrder, epOrders, BeginPass(host, isRetry),
                                   failing, isRetry)

addMissingIpRulesAndRoutes(isRetry, policyOrder, epOrders, host, failing) ==
    IF ~installRoutes THEN BeginPass(host, isRetry)
    ELSE addIpRulesAndRoutesForPolicies(policyOrder, epOrders, BeginPass(host, isRetry),
                                        failing, isRetry)

Host == [rules |-> ipRules, routes |-> ipRoutes, log |-> run.hostLog, retry |-> FALSE,
         passes |-> run.rulePasses]

\* shouldRetry := manager.addMissingIpRulesAndRoutes(false), then
\* manager.removeUnusedIpRulesAndRoutes(), then the retry if shouldRetry;
\* netlink.RuleAdd fails for the rules of failing in the first pass and for those of
\* failingRetry in the retry
IpRulesAndRoutes(failing, failingRetry) ==
    /\ rpc = "ipRulesAndRoutes"
    /\ \E policyOrder \in Perms(DOMAIN policyConfigs) :
          \E epOrders \in EndpointOrders(policyConfigs) :
             LET added == addMissingIpRulesAndRoutes(FALSE, policyOrder, epOrders, Host,
                                                     failing)
                 removed == removeUnusedIpRulesAndRoutes(added)
                 host == IF added.retry
                         THEN addMissingIpRulesAndRoutes(TRUE, policyOrder, epOrders,
                                                         removed, failingRetry)
                         ELSE removed
             IN /\ ipRules' = host.rules
                /\ ipRoutes' = host.routes
                /\ shouldRetry' = added.retry
                /\ run' = [run EXCEPT !.hostLog = host.log, !.rulePasses = host.passes]
    /\ rpc' = StepAfter("ipRulesAndRoutes")
    /\ UNCHANGED <<restVars, syncVars, mutex, cacheVars, pendingEndpointEvents,
                   queueVars, identityCache, eventsBitmap, triggerPending, policyMap,
                   addTodo, delTodo, workerVars, watcher, obs>>

(***************************************************************************)
(* The egress policy map: key [SourceIP, DestCIDR], value [EgressIP,       *)
(* GatewayIP].                                                             *)
(***************************************************************************)
\* addEgressRule without the ExcludedCIDRIPv4 substitution
egressRuleVal_GatewayForExcluded(c) ==
    [EgressIP |-> c.gwc.egressIP, GatewayIP |-> c.gwc.gatewayIP]

\* the key and the value addEgressRule computes for one call of forEachEndpointAndCIDR
egressRuleKey(c) == [SourceIP |-> c.endpointIP, DestCIDR |-> c.dstCIDR]

egressRuleVal(c) ==
    [EgressIP |-> c.gwc.egressIP,
     GatewayIP |-> IF c.excludedCIDR THEN ExcludedCIDRIPv4 ELSE c.gwc.gatewayIP]

\* addMissingEgressRules: the snapshot of the map, and the Update calls the loop over
\* manager.policyConfigs will make, in order
AddMissingEgressRules ==
    /\ rpc = "addMissingEgressRules"
    /\ \E policyOrder \in Perms(DOMAIN policyConfigs) :
          \E epOrders \in EndpointOrders(policyConfigs) :
             LET calls == Flatten([i \in 1..Len(policyOrder) |->
                              forEachEndpointAndCIDR(policyConfigs[policyOrder[i]],
                                                     epOrders[policyOrder[i]])])
                 Missing(c) == ~(/\ egressRuleKey(c) \in DOMAIN policyMap
                                 /\ policyMap[egressRuleKey(c)] = egressRuleVal(c))
                 missing == SelectSeq(calls, Missing)
             IN /\ addTodo' = [i \in 1..Len(missing) |->
                                  [key |-> egressRuleKey(missing[i]),
                                   val |-> egressRuleVal(missing[i])]]
                /\ rpc' = IF missing = <<>> THEN StepAfter("addMissingEgressRules")
                          ELSE "policyMap.Update"
    /\ UNCHANGED <<restVars, syncVars, mutex, cacheVars, pendingEndpointEvents,
                   queueVars, identityCache, eventsBitmap, triggerPending, hostVars,
                   delTodo, shouldRetry, run, workerVars, watcher, obs>>

\* a policyMap.Update whose error ends the reconciliation
PolicyMapUpdate_AbortsOnError(ok) ==
    /\ rpc = "policyMap.Update"
    /\ policyMap' = IF ok THEN MapPut(policyMap, Head(addTodo).key, Head(addTodo).val)
                    ELSE policyMap
    /\ addTodo' = IF ok THEN Tail(addTodo) ELSE <<>>
    /\ rpc' = IF ~ok THEN "clear"
              ELSE IF Tail(addTodo) = <<>> THEN StepAfter("addMissingEgressRules")
              ELSE "policyMap.Update"
    /\ run' = [run EXCEPT !.updates = @ + 1, !.failed = @ \/ ~ok,
                          !.failedUpdates = IF ok THEN @ ELSE @ \cup {Head(addTodo).key}]
    /\ UNCHANGED <<restVars, syncVars, mutex, cacheVars, pendingEndpointEvents,
                   queueVars, identityCache, eventsBitmap, triggerPending, ipRules,
                   ipRoutes, delTodo, shouldRetry, workerVars, watcher, obs>>

\* manager.policyMap.Update(endpointIP, *dstCIDR, gwc.egressIP.IP, gatewayIP)
PolicyMapUpdate(ok) ==
    /\ rpc = "policyMap.Update"
    /\ policyMap' = IF ok THEN MapPut(policyMap, Head(addTodo).key, Head(addTodo).val)
                    ELSE policyMap
    /\ addTodo' = Tail(addTodo)
    /\ rpc' = IF Tail(addTodo) = <<>> THEN StepAfter("addMissingEgressRules")
              ELSE "policyMap.Update"
    /\ run' = [run EXCEPT !.updates = @ + 1, !.failed = @ \/ ~ok,
                          !.failedUpdates = IF ok THEN @ ELSE @ \cup {Head(addTodo).key}]
    /\ UNCHANGED <<restVars, syncVars, mutex, cacheVars, pendingEndpointEvents,
                   queueVars, identityCache, eventsBitmap, triggerPending, ipRules,
                   ipRoutes, delTodo, shouldRetry, workerVars, watcher, obs>>

\* removeUnusedEgressRules: the snapshot of the map and the keys no policy matches
RemoveUnusedEgressRules ==
    /\ rpc = "removeUnusedEgressRules"
    /\ delTodo' = {k \in DOMAIN policyMap : ~policyMatches(k, policyMap[k])}
    /\ rpc' = IF delTodo' = {} THEN StepAfter("removeUnusedEgressRules")
              ELSE "policyMap.Delete"
    /\ UNCHANGED <<restVars, syncVars, mutex, cacheVars, pendingEndpointEvents,
                   queueVars, identityCache, eventsBitmap, triggerPending, hostVars,
                   addTodo, shouldRetry, run, workerVars, watcher, obs>>

\* manager.policyMap.Delete(policyKey.GetSourceIP(), *policyKey.GetDestCIDR())
PolicyMapDelete(ok) ==
    /\ rpc = "policyMap.Delete"
    /\ \E policyKey \in delTodo :
          /\ policyMap' = IF ok THEN MapDel(policyMap, policyKey) ELSE policyMap
          /\ delTodo' = delTodo \ {policyKey}
          /\ run' = [run EXCEPT !.deletes = @ + 1, !.failed = @ \/ ~ok,
                                !.failedDeletes = IF ok THEN @ ELSE @ \cup {policyKey}]
    /\ rpc' = IF delTodo' = {} THEN StepAfter("removeUnusedEgressRules")
              ELSE "policyMap.Delete"
    /\ UNCHANGED <<restVars, syncVars, mutex, cacheVars, pendingEndpointEvents,
                   queueVars, identityCache, eventsBitmap, triggerPending, ipRules,
                   ipRoutes, addTodo, shouldRetry, workerVars, watcher, obs>>

\* manager.eventsBitmap = 0 and the deferred manager.Unlock()
ReconcileEnd ==
    /\ rpc = "clear"
    /\ eventsBitmap' = 0
    /\ mutex' = "free"
    /\ rpc' = "idle"
    /\ shouldRetry' = FALSE
    /\ run' = NoRun
    /\ obs' = [obs EXCEPT !.clean = ~run.failed,
                          !.quiet = TRUE,
                          !.installed = DOMAIN policyConfigs,
                          !.policyRT = EmptyMap,
                          !.epInstalled = DOMAIN epDataStore,
                          !.endpointRT = EmptyMap,
                          !.ignored = <<>>]
    /\ UNCHANGED <<restVars, syncVars, cacheVars, pendingEndpointEvents, queueVars,
                   identityCache, triggerPending, hostVars, addTodo, delTodo, workerVars,
                   watcher>>

(***************************************************************************)
(* The inputs the environment draws from.                                  *)
(***************************************************************************)
\* destination CIDRs of the AddrBits wide space: a /1, the upper half of it, and a /2
\* outside of it
CIDR_A == <<0, 1>>
CIDR_A1 == <<1, 2>>
CIDR_B == <<2, 2>>

\* a PolicyConfig as ParseCEGP returns it
Policy(id, selector, dst, excluded, nodeSelector, iface, egressIP) ==
    [id |-> id, endpointSelector |-> selector, dstCIDRs |-> dst, excludedCIDRs |-> excluded,
     policyGwConfig |-> [nodeSelector |-> nodeSelector, iface |-> iface, egressIP |-> egressIP],
     matchedEndpoints |-> EmptyMap, gatewayConfig |-> ZeroGatewayConfig]

PolicyA == Policy("p1", {"app"}, <<CIDR_A>>, <<CIDR_A1>>, "gw", 1, "172.16.0.1")
\* PolicyA with another egress IP
PolicyARotated == Policy("p1", {"app"}, <<CIDR_A>>, <<CIDR_A1>>, "gw", 1, "172.16.0.2")
\* a policy that lists one CIDR both as destination and as excluded
PolicyAExcludesDst == Policy("p1", {"app"}, <<CIDR_A>>, <<CIDR_A>>, "gw", 1, "172.16.0.1")
\* a second policy that selects the same endpoints and destination as PolicyA but
\* another gateway
PolicyB == Policy("p2", {"app"}, <<CIDR_A>>, <<>>, "gw2", 2, "172.16.0.3")

EndpointA == [id |-> "ep1", ips |-> <<"10.0.0.1">>, identity |-> 1]
\* an endpoint that shares an address with EndpointA and has one of its own
EndpointB == [id |-> "ep2", ips |-> <<"10.0.0.1", "10.0.0.2">>, identity |-> 1]
\* an endpoint without IPv4 address
EndpointNoIP == [id |-> "ep2", ips |-> <<>>, identity |-> 2]

NodeLocal == [Name |-> LocalNodeName, IP |-> "192.168.0.1", Label |-> "gw"]
NodeRemote == [Name |-> <<2>>, IP |-> "192.168.0.2", Label |-> "gw2"]
\* the remote node relabelled so that PolicyA selects it too
NodeRemoteGw == [Name |-> <<2>>, IP |-> "192.168.0.2", Label |-> "gw"]

\* entries an earlier run of the agent left in the policy map: one for a key PolicyA
\* wants, with another value, and one that no policy wants
StaleMap ==
    ([SourceIP |-> "10.0.0.1", DestCIDR |-> CIDR_A]
        :> [EgressIP |-> "172.16.0.9", GatewayIP |-> "192.168.0.9"])
    @@ ([SourceIP |-> "10.0.0.9", DestCIDR |-> CIDR_B]
        :> [EgressIP |-> "172.16.0.9", GatewayIP |-> "192.168.0.9"])

(***************************************************************************)
(* Scheduling.  A reconcileLocked run holds the Manager mutex from its     *)
(* first to its last step, and what the other goroutines can do meanwhile  *)
(* (write pendingEndpointEvents, use the queue, close cacheStatus) is      *)
(* nothing the rest of the run reads.  The specifications below therefore  *)
(* let a reconcileLocked run, one iteration of the worker, one endpoint    *)
(* handler and the goroutine of runReconciliationAfterK8sSync each run to  *)
(* completion once started.                                                *)
(***************************************************************************)
SetBits(bitmap) ==
    Cardinality({e \in {eventK8sSyncDone, eventAddPolicy, eventDeletePolicy, eventUpdateNode,
                        eventDeleteNode, eventUpdateEndpoint, eventDeleteEndpoint} :
                    BitIsSet(bitmap, e)})

SyncIdle == syncPc \in {"wait", "done"}

WorkerMayRun == mutex # "reconcile" /\ watcher = <<>> /\ SyncIdle

Quiescent == WorkerMayRun /\ wpc = "get"

ReconcileMayRun == Quiescent \/ mutex = "reconcile"

\* the watchers deliver an event while fewer than MaxCoalescedEvents wait
Deliverable ==
    /\ Quiescent
    /\ SetBits(eventsBitmap) + Cardinality(DOMAIN pendingEndpointEvents) < MaxCoalescedEvents

(***************************************************************************)
(* The manager with the identities known and every policy map write        *)
(* succeeding: policies, endpoints and nodes come and go.                  *)
(***************************************************************************)
Init ==
    \E map0 \in {EmptyMap, StaleMap} : InitWith(TRUE, map0, {}, {}, {1, 2})

Next ==
    \/ Quiescent /\ K8sSyncDone
    \/ SyncSetEventBitmap
    \/ SyncTrigger
    \/ Deliverable /\ \E config \in {PolicyA, PolicyAExcludesDst, PolicyB} :
                         OnAddEgressPolicy(config)
    \/ Deliverable /\ \E configID \in {"p1", "p2"} : OnDeleteEgressPolicy(configID)
    \/ Deliverable /\ \E node \in {NodeLocal} : OnUpdateNode(node)
    \/ Deliverable /\ \E node \in {NodeLocal} : OnDeleteNode(node)
    \/ Deliverable /\ \E endpoint \in {EndpointA} : OnUpdateEndpoint(endpoint)
    \/ Deliverable /\ \E endpoint \in {EndpointA} : OnDeleteEndpoint(endpoint)
    \/ HandlerQueueAdd
    \/ WorkerMayRun /\ WorkerGet
    \/ WorkerMayRun /\ WorkerReadPending
    \/ WorkerMayRun /\ AddEndpointBegin
    \/ WorkerMayRun /\ AddEndpointFinish(TRUE)
    \/ WorkerMayRun /\ deleteEndpoint
    \/ WorkerMayRun /\ WorkerRequeue
    \/ WorkerMayRun /\ WorkerDone
    \/ Quiescent /\ TriggerFire
    \/ Quiescent /\ ReconcileBegin
    \/ IpRulesAndRoutes({}, {})
    \/ AddMissingEgressRules
    \/ PolicyMapUpdate(TRUE)
    \/ RemoveUnusedEgressRules
    \/ PolicyMapDelete(TRUE)
    \/ ReconcileEnd

Spec == Init /\ [][Next]_vars

(***************************************************************************)
(* What the stores ask for, read off the stores themselves.                *)
(***************************************************************************)
\* a reconcileLocked run has made its last call and has not yet cleared the bitmap
RunEnded == rpc = "clear"

\* the endpoints of the endpoint store a policy selects, and their addresses
SelectedEndpoints(p) ==
    {e \in DOMAIN epDataStore : epDataStore[e].labels \in policyConfigs[p].endpointSelector}

SelectedIPs(p) == UNION {Range(epDataStore[e].ips) : e \in SelectedEndpoints(p)}

\* the gateway configuration of a policy given the nodes slice
GatewayOf(p) == regenerateGatewayConfig(policyConfigs[p], nodes).gatewayConfig

\* the entries (ip, cidr) -> (egressIP, gatewayIP) and (ip, cidr) -> (egressIP, 0.0.0.1)
WantedEntries ==
    UNION {
        {[key |-> [SourceIP |-> ip, DestCIDR |-> c],
          val |-> [EgressIP |-> GatewayOf(p).egressIP, GatewayIP |-> GatewayOf(p).gatewayIP]] :
            ip \in SelectedIPs(p), c \in Range(policyConfigs[p].dstCIDRs)}
        \cup
        {[key |-> [SourceIP |-> ip, DestCIDR |-> c],
          val |-> [EgressIP |-> GatewayOf(p).egressIP, GatewayIP |-> "0.0.0.1"]] :
            ip \in SelectedIPs(p), c \in Range(policyConfigs[p].excludedCIDRs)}
        : p \in DOMAIN policyConfigs}

WantedKeys == {e.key : e \in WantedEntries}

\* two wanted entries have the same key and different values
WantedEntriesConflict ==
    \E e1, e2 \in WantedEntries : e1.key = e2.key /\ e1.val # e2.val

(***************************************************************************)
(* C1.  As claimed: after a run of reconcileLocked that passed the         *)
(* Synchronized check and in which every policy map write succeeded, the   *)
(* policy map holds every wanted entry and no other entry.                 *)
(***************************************************************************)
C1_MapHoldsExactlyTheWantedEntries ==
    (RunEnded /\ ~run.failed) =>
        /\ \A e \in WantedEntries :
              e.key \in DOMAIN policyMap /\ policyMap[e.key] = e.val
        /\ \A k \in DOMAIN policyMap :
              \E e \in WantedEntries : e.key = k /\ e.val = policyMap[k]

(***************************************************************************)
(* C1, amended.  After such a run the keys of the policy map are exactly   *)
(* the wanted keys, and every key carries one of the values wanted for it  *)
(* (the wanted value, when the policies do not conflict on the key).       *)
(***************************************************************************)
C1_MapHoldsTheWantedKeysWithAWantedValue ==
    (RunEnded /\ ~run.failed) =>
        /\ DOMAIN policyMap = WantedKeys
        /\ \A k \in DOMAIN policyMap :
              \E e \in WantedEntries : e.key = k /\ e.val = policyMap[k]

\* a run over stale entries and conflicting policies has written and deleted
C1_Witness ==
    /\ RunEnded
    /\ ~run.failed
    /\ run.updates > 0
    /\ run.deletes > 0
    /\ WantedEntriesConflict
    /\ policyMap # EmptyMap

(***************************************************************************)
(* C2.  Within one run of reconcileLocked no policyMap.Update call follows *)
(* a policyMap.Delete call: when an Update is made, no Delete has been     *)
(* made in the run.                                                        *)
(***************************************************************************)
C2_NoUpdateAfterDelete ==
    [][run'.updates > run.updates => run.deletes = 0]_vars

\* a run that made Update calls and then Delete calls
C2_Witness == RunEnded /\ run.updates > 0 /\ run.deletes > 0

(***************************************************************************)
(* C4.  As claimed: a run of reconcileLocked that follows a run whose      *)
(* writes all succeeded, with no handler in between, makes no              *)
(* policyMap.Update and no policyMap.Delete call.                          *)
(***************************************************************************)
C4_SecondRunMakesNoWrite ==
    (RunEnded /\ run.clean) => (run.updates = 0 /\ run.deletes = 0)

\* a second run without a handler in between that has nothing to write
C4_Witness == RunEnded /\ run.clean /\ run.updates = 0 /\ policyMap # EmptyMap

(***************************************************************************)
(* C8.  Policy round trip: a policy that a run has installed and that      *)
(* OnDeleteEgressPolicy then deleted leaves, after the next run with       *)
(* successful writes, no entry in the policy map that only it wanted; when *)
(* no policy is left the map is empty.                                     *)
(***************************************************************************)
C8_PolicyRoundTrip ==
    (RunEnded /\ ~run.failed) =>
        \A p \in DOMAIN obs.policyRT :
            /\ \A k \in obs.policyRT[p] \ WantedKeys : k \notin DOMAIN policyMap
            /\ DOMAIN policyConfigs = {} => policyMap = EmptyMap

\* the run after the deletion of the only policy has deleted its entries
C8_Witness ==
    /\ RunEnded
    /\ ~run.failed
    /\ run.deletes > 0
    /\ DOMAIN policyConfigs = {}
    /\ policyMap = EmptyMap
    /\ \E p \in DOMAIN obs.policyRT : obs.policyRT[p] # {}

(***************************************************************************)
(* The manager with two endpoints that share an address and two policies   *)
(* that select both; no routes are installed.                              *)
(***************************************************************************)
InitEndpoints == InitWith(FALSE, EmptyMap, {}, {}, {1, 2})

NextEndpoints ==
    \/ Quiescent /\ K8sSyncDone
    \/ SyncSetEventBitmap
    \/ SyncTrigger
    \/ Deliverable /\ \E config \in {PolicyA, PolicyB} : OnAddEgressPolicy(config)
    \/ Deliverable /\ \E configID \in {"p1", "p2"} : OnDeleteEgressPolicy(configID)
    \/ Deliverable /\ \E endpoint \in {EndpointA, EndpointB} : OnUpdateEndpoint(endpoint)
    \/ Deliverable /\ \E endpoint \in {EndpointA, EndpointB} : OnDeleteEndpoint(endpoint)
    \/ HandlerQueueAdd
    \/ WorkerMayRun /\ WorkerGet
    \/ WorkerMayRun /\ WorkerReadPending
    \/ WorkerMayRun /\ AddEndpointBegin
    \/ WorkerMayRun /\ AddEndpointFinish(TRUE)
    \/ WorkerMayRun /\ deleteEndpoint
    \/ WorkerMayRun /\ WorkerRequeue
    \/ WorkerMayRun /\ WorkerDone
    \/ Quiescent /\ TriggerFire
    \/ Quiescent /\ ReconcileBegin
    \/ IpRulesAndRoutes({}, {})
    \/ AddMissingEgressRules
    \/ PolicyMapUpdate(TRUE)
    \/ RemoveUnusedEgressRules
    \/ PolicyMapDelete(TRUE)
    \/ ReconcileEnd

SpecEndpoints == InitEndpoints /\ [][NextEndpoints]_vars

\* the addresses of the endpoints of the endpoint store
StoredIPs == UNION {Range(epDataStore[e].ips) : e \in DOMAIN epDataStore}

(***************************************************************************)
(* C6.  After every run of reconcileLocked that passes the synchronized    *)
(* check, policyConfigsBySourceIP[ip] holds exactly the policies of        *)
(* policyConfigs that select an endpoint of epDataStore with address ip,   *)
(* and has no key for an address no such endpoint has.                     *)
(***************************************************************************)
C6_IndexIsTheRebuiltIndex ==
    RunEnded =>
        /\ DOMAIN policyConfigsBySourceIP =
              UNION {SelectedIPs(p) : p \in DOMAIN policyConfigs}
        /\ \A ip \in DOMAIN policyConfigsBySourceIP :
              /\ policyConfigsBySourceIP[ip] =
                    {p \in DOMAIN policyConfigs : ip \in SelectedIPs(p)}
              /\ \A p \in policyConfigsBySourceIP[ip] : IndexedConfig(p) = policyConfigs[p]

\* a run after the removal of an endpoint: one address lists two policies and an
\* address of the removed endpoint is no key any more
C6_Witness ==
    /\ RunEnded
    /\ BitIsSet(eventsBitmap, eventDeleteEndpoint)
    /\ \E ip \in DOMAIN policyConfigsBySourceIP :
          Cardinality(policyConfigsBySourceIP[ip]) = 2
    /\ \E e \in DOMAIN obs.endpointRT :
          \E ip \in obs.endpointRT[e] : ip \notin DOMAIN policyConfigsBySourceIP

(***************************************************************************)
(* C9.  As claimed: an endpoint that a run has seen in epDataStore and     *)
(* that the worker then deleted is, after the next run, absent from        *)
(* epDataStore, none of its addresses is a key of policyConfigsBySourceIP, *)
(* and the policy map has no entry whose source address was only its.      *)
(***************************************************************************)
C9_NoIndexKeyForAnyAddressOfTheEndpoint ==
    (RunEnded /\ ~run.failed) =>
        \A e \in DOMAIN obs.endpointRT :
            /\ e \notin DOMAIN epDataStore
            /\ \A ip \in obs.endpointRT[e] :
                  /\ ip \notin DOMAIN policyConfigsBySourceIP
                  /\ ip \notin StoredIPs =>
                        \A k \in DOMAIN policyMap : k.SourceIP # ip

(***************************************************************************)
(* C9, amended.  After the round trip the endpoint is absent from          *)
(* epDataStore, and an address that was only its is neither a key of       *)
(* policyConfigsBySourceIP nor the source address of a policy map entry.   *)
(***************************************************************************)
C9_EndpointRoundTrip ==
    (RunEnded /\ ~run.failed) =>
        \A e \in DOMAIN obs.endpointRT :
            /\ e \notin DOMAIN epDataStore
            /\ \A ip \in obs.endpointRT[e] \ StoredIPs :
                  /\ ip \notin DOMAIN policyConfigsBySourceIP
                  /\ \A k \in DOMAIN policyMap : k.SourceIP # ip

\* the run after the deletion of an installed endpoint has deleted the entries of
\* an address that was only its
C9_Witness ==
    /\ RunEnded
    /\ ~run.failed
    /\ run.deletes > 0
    /\ \E e \in DOMAIN obs.endpointRT : obs.endpointRT[e] \ StoredIPs # {}

(***************************************************************************)
(* The manager with a policy map whose writes may fail: the egress IP of   *)
(* policy p1 rotates, the gateway node appears.                            *)
(***************************************************************************)
InitFail == InitWith(FALSE, EmptyMap, {}, {}, {1, 2})

NextFail ==
    \/ Quiescent /\ K8sSyncDone
    \/ SyncSetEventBitmap
    \/ SyncTrigger
    \/ Deliverable /\ \E config \in {PolicyA, PolicyARotated} : OnAddEgressPolicy(config)
    \/ Deliverable /\ \E node \in {NodeLocal} : OnUpdateNode(node)
    \/ Deliverable /\ \E endpoint \in {EndpointA} : OnUpdateEndpoint(endpoint)
    \/ HandlerQueueAdd
    \/ WorkerMayRun /\ WorkerGet
    \/ WorkerMayRun /\ WorkerReadPending
    \/ WorkerMayRun /\ AddEndpointBegin
    \/ WorkerMayRun /\ AddEndpointFinish(TRUE)
    \/ WorkerMayRun /\ WorkerRequeue
    \/ WorkerMayRun /\ WorkerDone
    \/ Quiescent /\ TriggerFire
    \/ Quiescent /\ ReconcileBegin
    \/ IpRulesAndRoutes({}, {})
    \/ AddMissingEgressRules
    \/ \E ok \in BOOLEAN : PolicyMapUpdate(ok)
    \/ RemoveUnusedEgressRules
    \/ \E ok \in BOOLEAN : PolicyMapDelete(ok)
    \/ ReconcileEnd

SpecFail == InitFail /\ [][NextFail]_vars

(***************************************************************************)
(* C3.  As claimed (rotation without gap): a key the map held when the run *)
(* began and that the policies still want, with the same or with a new     *)
(* egress IP or gateway IP, is in the policy map in every state of the     *)
(* run: it is overwritten and never deleted.                               *)
(***************************************************************************)
C3_RotatedKeyIsNeverAbsent ==
    mutex = "reconcile" => run.stable \subseteq DOMAIN policyMap

\* a run has overwritten the value of a key it found in the map and deleted nothing
C3_Witness ==
    /\ RunEnded
    /\ ~run.failed
    /\ run.stable # {}
    /\ run.updates > 0
    /\ run.deletes = 0
    /\ run.stable \subseteq DOMAIN policyMap

(***************************************************************************)
(* The manager that installs no routes, on a host that holds egress        *)
(* gateway rules and routes of an earlier configuration.                   *)
(***************************************************************************)
StaleRules == {newEgressIpRule("10.0.0.1", CIDR_B, egressGatewayRoutingTableIdx(1)),
               newEgressIpRule("10.0.0.9", CIDR_B, egressGatewayRoutingTableIdx(2))}

StaleRoutes == {[LinkIndex |-> 1, Table |-> egressGatewayRoutingTableIdx(1)],
                [LinkIndex |-> 2, Table |-> egressGatewayRoutingTableIdx(2)],
                [LinkIndex |-> 1, Table |-> 254]}

InitRoutes ==
    \E rules0 \in {{}, StaleRules} : \E routes0 \in {{}, StaleRoutes} :
        InitWith(FALSE, EmptyMap, rules0, routes0, {1, 2})

NextRoutes ==
    \/ Quiescent /\ K8sSyncDone
    \/ SyncSetEventBitmap
    \/ SyncTrigger
    \/ Deliverable /\ \E config \in {PolicyA, PolicyB} : OnAddEgressPolicy(config)
    \/ Deliverable /\ \E configID \in {"p1"} : OnDeleteEgressPolicy(configID)
    \/ Deliverable /\ \E node \in {NodeLocal, NodeRemote} : OnUpdateNode(node)
    \/ Deliverable /\ \E endpoint \in {EndpointA} : OnUpdateEndpoint(endpoint)
    \/ HandlerQueueAdd
    \/ WorkerMayRun /\ WorkerGet
    \/ WorkerMayRun /\ WorkerReadPending
    \/ WorkerMayRun /\ AddEndpointBegin
    \/ WorkerMayRun /\ AddEndpointFinish(TRUE)
    \/ WorkerMayRun /\ WorkerRequeue
    \/ WorkerMayRun /\ WorkerDone
    \/ Quiescent /\ TriggerFire
    \/ Quiescent /\ ReconcileBegin
    \/ IpRulesAndRoutes({}, {})
    \/ AddMissingEgressRules
    \/ PolicyMapUpdate(TRUE)
    \/ RemoveUnusedEgressRules
    \/ PolicyMapDelete(TRUE)
    \/ ReconcileEnd

SpecRoutes == InitRoutes /\ [][NextRoutes]_vars

\* the kinds of netlink call the run has made
HostCalls == Range(run.hostLog)

\* a policy with matched endpoints has the local node as its gateway
LocalGatewayInUse ==
    \E p \in DOMAIN policyConfigs :
        /\ policyConfigs[p].gatewayConfig.localNodeConfiguredAsGateway
        /\ DOMAIN policyConfigs[p].matchedEndpoints # {}

NodeLongName == [Name |-> <<1, 2>>, IP |-> "192.168.0.3", Label |-> "gw2"]

InitNodes == InitWith(TRUE, EmptyMap, {}, {}, {1, 2})

NextNodes ==
    \/ Quiescent /\ K8sSyncDone
    \/ SyncSetEventBitmap
    \/ SyncTrigger
    \/ Deliverable /\ \E config \in {PolicyA} : OnAddEgressPolicy(config)
    \/ Deliverable /\ \E node \in {NodeLocal, NodeRemote, NodeRemoteGw, NodeLongName} :
                         OnUpdateNode(node)
    \/ Deliverable /\ \E node \in {NodeLocal, NodeRemote, NodeLongName} : OnDeleteNode(node)
    \/ Quiescent /\ TriggerFire
    \/ Quiescent /\ ReconcileBegin
    \/ IpRulesAndRoutes({}, {})
    \/ AddMissingEgressRules
    \/ RemoveUnusedEgressRules
    \/ ReconcileEnd

SpecNodes == InitNodes /\ [][NextNodes]_vars

\* name a sorts strictly before name b: a is a proper prefix of b, or at the first
\* position where they differ a has the smaller character
NameBefore(a, b) ==
    \E i \in 1..(Len(b)) :
        /\ \A j \in 1..(i - 1) : j <= Len(a) /\ a[j] = b[j]
        /\ i > Len(a) \/ a[i] < b[i]

(***************************************************************************)
(* C7.  After any sequence of OnUpdateNode and OnDeleteNode calls the      *)
(* nodes slice holds exactly the values of nodeDataStore, one per node     *)
(* name, in strictly ascending order of Name.                              *)
(***************************************************************************)
C7_NodesAreTheSortedStore ==
    /\ Len(nodes) = Cardinality(DOMAIN nodeDataStore)
    /\ \A i \in 1..Len(nodes) :
          /\ nodes[i].Name \in DOMAIN nodeDataStore
          /\ nodes[i] = nodeDataStore[nodes[i].Name]
    /\ \A i \in 1..Len(nodes) : \A j \in 1..Len(nodes) :
          i < j => NameBefore(nodes[i].Name, nodes[j].Name)

\* three nodes are stored, after an update that changed a stored node and a deletion
C7_Witness ==
    /\ Len(nodes) = 3
    /\ BitIsSet(eventsBitmap, eventDeleteNode)
    /\ BitIsSet(eventsBitmap, eventUpdateNode)
    /\ NodeRemoteGw \in Range(nodes)

(***************************************************************************)
(* The manager with an identity allocator that does not know the identity  *)
(* of the endpoint yet.                                                    *)
(***************************************************************************)
InitRetry == InitWith(FALSE, EmptyMap, {}, {}, {})

NextRetry ==
    \/ Quiescent /\ K8sSyncDone
    \/ SyncSetEventBitmap
    \/ SyncTrigger
    \/ Deliverable /\ \E config \in {PolicyA} : OnAddEgressPolicy(config)
    \/ Deliverable /\ \E endpoint \in {EndpointA} : OnUpdateEndpoint(endpoint)
    \/ Deliverable /\ \E endpoint \in {EndpointA} : OnDeleteEndpoint(endpoint)
    \/ HandlerQueueAdd
    \/ Quiescent /\ IdentityResolves(1)
    \/ Quiescent /\ \E id \in waitingForQueue : DelayElapsed(id)
    \/ WorkerMayRun /\ WorkerGet
    \/ WorkerMayRun /\ WorkerReadPending
    \/ WorkerMayRun /\ AddEndpointBegin
    \/ WorkerMayRun /\ \E waitOk \in BOOLEAN : AddEndpointFinish(waitOk)
    \/ WorkerMayRun /\ deleteEndpoint
    \/ WorkerMayRun /\ WorkerRequeue
    \/ WorkerMayRun /\ WorkerDone
    \/ Quiescent /\ TriggerFire
    \/ Quiescent /\ ReconcileBegin
    \/ IpRulesAndRoutes({}, {})
    \/ AddMissingEgressRules
    \/ PolicyMapUpdate(TRUE)
    \/ RemoveUnusedEgressRules
    \/ PolicyMapDelete(TRUE)
    \/ ReconcileEnd

SpecRetry == InitRetry /\ [][NextRetry]_vars

\* the pending event of id is an update of an endpoint whose identity is unknown
Unresolvable(id) ==
    /\ id \in DOMAIN pendingEndpointEvents
    /\ pendingEndpointEvents[id].eventType = eventUpdateEndpoint
    /\ pendingEndpointEvents[id].endpoint[1].identity \notin identityCache

\* 20 ms doubled per earlier failure, at most 20 min
BackoffDelay(attempt) ==
    IF 20 * (2 ^ (attempt - 1)) > 1200000 THEN 1200000 ELSE 20 * (2 ^ (attempt - 1))

NextRetryLive ==
    \/ Quiescent /\ K8sSyncDone
    \/ SyncSetEventBitmap
    \/ SyncTrigger
    \/ Deliverable /\ \E config \in {PolicyA} : OnAddEgressPolicy(config)
    \/ /\ Deliverable
       /\ EndpointA.id \notin DOMAIN epDataStore
       /\ EndpointA.id \notin DOMAIN pendingEndpointEvents
       /\ OnUpdateEndpoint(EndpointA)
    \/ HandlerQueueAdd
    \/ Quiescent /\ IdentityResolves(1)
    \/ Quiescent /\ \E id \in waitingForQueue : DelayElapsed(id)
    \/ WorkerMayRun /\ WorkerGet
    \/ WorkerMayRun /\ WorkerReadPending
    \/ WorkerMayRun /\ AddEndpointBegin
    \/ WorkerMayRun /\ AddEndpointFinish(TRUE)
    \/ WorkerMayRun /\ WorkerRequeue
    \/ WorkerMayRun /\ WorkerDone
    \/ Quiescent /\ TriggerFire
    \/ Quiescent /\ ReconcileBegin
    \/ IpRulesAndRoutes({}, {})
    \/ AddMissingEgressRules
    \/ PolicyMapUpdate(TRUE)
    \/ RemoveUnusedEgressRules
    \/ ReconcileEnd

FairRetry ==
    /\ WF_vars(SyncSetEventBitmap)
    /\ WF_vars(SyncTrigger)
    /\ WF_vars(HandlerQueueAdd)
    /\ SF_vars(Quiescent /\ IdentityResolves(1))
    /\ SF_vars(Quiescent /\ \E id \in waitingForQueue : DelayElapsed(id))
    /\ SF_vars(WorkerMayRun /\ WorkerGet)
    /\ SF_vars(WorkerMayRun /\ WorkerReadPending)
    /\ SF_vars(WorkerMayRun /\ AddEndpointBegin)
    /\ SF_vars(WorkerMayRun /\ AddEndpointFinish(TRUE))
    /\ SF_vars(WorkerMayRun /\ WorkerRequeue)
    /\ SF_vars(WorkerMayRun /\ WorkerDone)
    /\ WF_vars(Quiescent /\ ReconcileBegin)
    /\ WF_vars(IpRulesAndRoutes({}, {}))
    /\ WF_vars(AddMissingEgressRules)
    /\ WF_vars(PolicyMapUpdate(TRUE))
    /\ WF_vars(RemoveUnusedEgressRules)
    /\ WF_vars(ReconcileEnd)

SpecRetryLive == InitRetry /\ [][NextRetryLive]_vars /\ FairRetry

\* endpoint id is stored, its event is no longer pending, the rate limiter has
\* forgotten it, and a reconciliation that will see it is requested, running or done
StoredAndForgotten(id) ==
    /\ id \in DOMAIN epDataStore
    /\ id \notin DOMAIN pendingEndpointEvents
    /\ id \notin DOMAIN failures
    /\ id \notin waitingForQueue
    /\ triggerPending \/ rpc # "idle"

EndpointAMoved == [id |-> "ep1", ips |-> <<"10.0.0.2">>, identity |-> 1]

InitPending == InitWith(FALSE, EmptyMap, {}, {}, {1, 2})

NextPending ==
    \/ Quiescent /\ K8sSyncDone
    \/ SyncSetEventBitmap
    \/ SyncTrigger
    \/ Deliverable /\ \E config \in {PolicyA} : OnAddEgressPolicy(config)
    \/ Deliverable /\ \E endpoint \in {EndpointA, EndpointAMoved, EndpointB} :
                         OnUpdateEndpoint(endpoint)
    \/ Deliverable /\ \E endpoint \in {EndpointA, EndpointB} : OnDeleteEndpoint(endpoint)
    \/ HandlerQueueAdd
    \/ WorkerMayRun /\ WorkerGet
    \/ WorkerMayRun /\ WorkerReadPending
    \/ WorkerMayRun /\ AddEndpointBegin
    \/ WorkerMayRun /\ AddEndpointFinish(TRUE)
    \/ WorkerMayRun /\ deleteEndpoint
    \/ WorkerMayRun /\ WorkerRequeue
    \/ WorkerMayRun /\ WorkerDone
    \/ Quiescent /\ TriggerFire
    \/ Quiescent /\ ReconcileBegin
    \/ IpRulesAndRoutes({}, {})
    \/ AddMissingEgressRules
    \/ PolicyMapUpdate(TRUE)
    \/ RemoveUnusedEgressRules
    \/ PolicyMapDelete(TRUE)
    \/ ReconcileEnd

SpecPending == InitPending /\ [][NextPending]_vars

\* the worker has applied the pending event of the id it holds
Applied(id) == wpc = "check" /\ wItem = id /\ id \notin DOMAIN pendingEndpointEvents

\* epDataStore holds for the id what the event asks for
StoreReflects(id, event) ==
    IF event.eventType = eventDeleteEndpoint
    THEN id \notin DOMAIN epDataStore
    ELSE /\ id \in DOMAIN epDataStore
         /\ <<epDataStore[id]>> =
               getEndpointMetadata(event.endpoint[1],
                                   IdentityLabels(event.endpoint[1].identity))

\* C12: the pending events map holds for an endpoint id the event of the last
\* OnUpdateEndpoint or OnDeleteEndpoint call for the id, whatever calls came
\* before it, and when the worker has applied the pending event of the id the
\* endpoint store reflects that last call alone: the id is absent after a last
\* Delete, and the metadata is that of the last endpoint object after a last
\* Update.
C12_LastEventWins ==
    /\ \A id \in DOMAIN pendingEndpointEvents :
          /\ id \in DOMAIN obs.last
          /\ pendingEndpointEvents[id] = obs.last[id].event
    /\ \A id \in DOMAIN obs.last :
          Applied(id) => StoreReflects(id, obs.last[id].event)

\* the worker has applied an Update with the second endpoint object that
\* overwrote a pending Delete of the same id
C12_Witness ==
    /\ Applied(EndpointA.id)
    /\ EndpointA.id \in DOMAIN obs.last
    /\ obs.last[EndpointA.id].before = eventDeleteEndpoint
    /\ obs.last[EndpointA.id].event.endpoint = <<EndpointAMoved>>
    /\ epDataStore[EndpointA.id].ips = EndpointAMoved.ips
    /\ wEvent = <<obs.last[EndpointA.id].event>>

(***************************************************************************)
(* OnDeleteEgressPolicy for an id the manager holds no policy for.         *)
(***************************************************************************)
\* the step is an OnDeleteEgressPolicy call that found no policy with the id
IgnoredDelete == obs'.ignored # <<>> /\ obs'.ignored # obs.ignored

\* C13: an OnDeleteEgressPolicy call for an id that is not in policyConfigs changes
\* nothing: policyConfigs, policyConfigsBySourceIP and the events bitmap stay as
\* they are and the reconciliation trigger is not fired.
C13_UnknownPolicyDeleteChangesNothing ==
    [][IgnoredDelete =>
          /\ obs'.ignored[1] \notin DOMAIN policyConfigs
          /\ UNCHANGED <<policyConfigs, policyConfigsBySourceIP, eventsBitmap,
                         triggerPending>>]_vars

\* a delete of an unknown policy has returned while another policy is held and
\* indexed, no event bit is set and no trigger is pending
C13_Witness ==
    /\ obs.ignored = <<"p2">>
    /\ DOMAIN policyConfigs = {"p1"}
    /\ policyConfigsBySourceIP # EmptyMap
    /\ eventsBitmap = 0
    /\ ~triggerPending
    /\ rpc = "idle"

(***************************************************************************)
(* The operations that change a cache: the policy and node handlers and    *)
(* the worker's addEndpoint and deleteEndpoint.                            *)
(***************************************************************************)
\* the step writes map' for a key: the key is new or its value has changed
Written(map, mapAfter) ==
    \E k \in DOMAIN mapAfter : k \notin DOMAIN map \/ mapAfter[k] # map[k]

\* the step removes a key of the map
Removed(map, mapAfter) == DOMAIN map \ DOMAIN mapAfter # {}

\* the step is made by a goroutine that holds the Manager mutex through it: one
\* that takes and releases it within the step, or the worker inside addEndpoint
HeldByTheCaller ==
    \/ mutex = "free" /\ mutex' = "free"
    \/ mutex = "worker" /\ wpc = "getIdentityLabels"

\* the step sets the bit of the event and fires the trigger, under the mutex
Announces(e) ==
    /\ BitIsSet(eventsBitmap', e)
    /\ triggerPending'
    /\ HeldByTheCaller

HandlerMayRun ==
    /\ watcher = <<>>
    /\ SyncIdle
    /\ wpc = "get"
    /\ SetBits(eventsBitmap) + Cardinality(DOMAIN pendingEndpointEvents) < MaxCoalescedEvents

InitHandlers == InitWith(FALSE, EmptyMap, {}, {}, {1, 2})

NextHandlers ==
    \/ Quiescent /\ K8sSyncDone
    \/ SyncSetEventBitmap
    \/ SyncTrigger
    \/ Deliverable /\ \E config \in {PolicyA} : OnAddEgressPolicy(config)
    \/ HandlerMayRun /\ \E endpoint \in {EndpointA, EndpointB} : OnUpdateEndpoint(endpoint)
    \/ HandlerMayRun /\ \E endpoint \in {EndpointA, EndpointB} : OnDeleteEndpoint(endpoint)
    \/ HandlerQueueAdd
    \/ WorkerMayRun /\ WorkerGet
    \/ WorkerMayRun /\ WorkerReadPending
    \/ WorkerMayRun /\ AddEndpointBegin
    \/ WorkerMayRun /\ AddEndpointFinish(TRUE)
    \/ WorkerMayRun /\ deleteEndpoint
    \/ WorkerMayRun /\ WorkerRequeue
    \/ WorkerMayRun /\ WorkerDone
    \/ Quiescent /\ TriggerFire
    \/ Quiescent /\ ReconcileBegin
    \/ IpRulesAndRoutes({}, {})
    \/ AddMissingEgressRules
    \/ PolicyMapUpdate(TRUE)
    \/ RemoveUnusedEgressRules
    \/ PolicyMapDelete(TRUE)
    \/ ReconcileEnd

SpecHandlers == InitHandlers /\ [][NextHandlers]_vars

\* the step is the map write of an endpoint handler, or its queue Add
HandlerWrites == watcher = <<>> /\ watcher' # <<>>
HandlerAdds == watcher # <<>> /\ watcher' = <<>>

\* C15: OnUpdateEndpoint and OnDeleteEndpoint change only the pending events entry
\* of their endpoint id and the event queue: the endpoint store, the policy
\* caches, the node caches, the events bitmap and the pending trigger are
\* unchanged, and so is the Manager mutex, which the handlers do not take
\* (they run while another goroutine holds it).
C15_EndpointHandlersTouchOnlyPendingAndQueue ==
    [][/\ HandlerWrites =>
             /\ watcher'[1] \in DOMAIN pendingEndpointEvents'
             /\ \A id \in (DOMAIN pendingEndpointEvents \cup DOMAIN pendingEndpointEvents')
                          \ {watcher'[1]} :
                   /\ id \in DOMAIN pendingEndpointEvents
                   /\ id \in DOMAIN pendingEndpointEvents'
                   /\ pendingEndpointEvents'[id] = pendingEndpointEvents[id]
             /\ UNCHANGED <<queueVars, mutex, epDataStore, policyConfigs,
                            policyConfigsBySourceIP, nodeDataStore, nodes, eventsBitmap,
                            triggerPending, hostVars>>
       /\ HandlerAdds =>
             /\ UNCHANGED <<pendingEndpointEvents, processing, waitingForQueue, failures,
                            mutex, epDataStore, policyConfigs, policyConfigsBySourceIP,
                            nodeDataStore, nodes, eventsBitmap, triggerPending, hostVars>>]_vars

\* a handler has written its entry, next to the entry of another endpoint,
\* while the reconciler holds the Manager mutex
C15_Witness ==
    /\ watcher # <<>>
    /\ mutex = "reconcile"
    /\ Cardinality(DOMAIN pendingEndpointEvents) = 1
    /\ epDataStore # EmptyMap
    /\ policyConfigsBySourceIP # EmptyMap

(***************************************************************************)
(* reconcileLocked before the k8s caches are synchronized.                 *)
(***************************************************************************)
EventBits ==
    {eventK8sSyncDone, eventAddPolicy, eventDeletePolicy, eventUpdateNode, eventDeleteNode,
     eventUpdateEndpoint, eventDeleteEndpoint}

\* the step clears a bit of the events bitmap
ClearsABit == \E e \in EventBits : BitIsSet(eventsBitmap, e) /\ ~BitIsSet(eventsBitmap', e)

\* C16: as long as the k8s caches are not synchronized a reconcileLocked run does
\* nothing: the index by source IP is not rebuilt, no gateway configuration is
\* generated, the policy map and the host's rules and routes are not touched and
\* no event bit is cleared; a bit is cleared only at the end of a run that got
\* past the Synchronized() check, so the bits set before the sync are set in
\* the first run after it.
C16_NothingIsReconciledBeforeSync ==
    [][/\ ~cacheSynced' =>
             /\ UNCHANGED <<policyConfigsBySourceIP, policyMap, ipRules, ipRoutes>>
             /\ \A p \in DOMAIN policyConfigs' :
                   policyConfigs'[p].gatewayConfig = ZeroGatewayConfig
             /\ ~run'.passed
             /\ ~ClearsABit
       /\ ClearsABit => cacheSynced /\ rpc = "clear" /\ run.passed]_vars

\* before the sync the trigger has fired and the run has returned: two event
\* bits are still set, the caches hold a policy and an endpoint it selects, and
\* index and policy map are as they were
C16_Witness ==
    /\ ~cacheSynced
    /\ ~triggerPending
    /\ rpc = "idle"
    /\ mutex = "free"
    /\ BitIsSet(eventsBitmap, eventAddPolicy)
    /\ BitIsSet(eventsBitmap, eventUpdateEndpoint)
    /\ \E p \in DOMAIN policyConfigs : SelectedEndpoints(p) # {}
    /\ policyConfigsBySourceIP = EmptyMap
    /\ policyMap = StaleMap

(***************************************************************************)
(* The locking of the manager, statement by statement: every function body *)
(* as the sequence of its lock calls and of its accesses to the state the  *)
(* locks guard.  The goroutines of Threads run the bodies concurrently.    *)
(***************************************************************************)
LockMutexStmt == <<"Lock", "Mutex">>
UnlockMutexStmt == <<"Unlock", "Mutex">>
LockPendingStmt == <<"Lock", "pendingEndpointEventsLock">>
UnlockPendingStmt == <<"Unlock", "pendingEndpointEventsLock">>
RLockPendingStmt == <<"RLock", "pendingEndpointEventsLock">>
RUnlockPendingStmt == <<"RUnlock", "pendingEndpointEventsLock">>
\* reads and writes of epDataStore, policyConfigs, nodes, nodeDataStore or eventsBitmap
CachesStmt == <<"access", "caches">>
\* a read or write of pendingEndpointEvents
PendingStmt == <<"access", "pendingEndpointEvents">>
\* calls of the reconciliation trigger or of the event queue
TriggerStmt == <<"call", "reconciliationTrigger">>
QueueStmt == <<"call", "endpointEventsQueue">>

\* a TriggerFunc that does not take the Manager mutex
TriggerFuncBody_Unlocked == <<CachesStmt>>

\* TriggerFunc: manager.Lock(), defer manager.Unlock(), manager.reconcileLocked()
TriggerFuncBody == <<LockMutexStmt, CachesStmt, UnlockMutexStmt>>

\* the goroutine of runReconciliationAfterK8sSync
runReconciliationAfterK8sSyncBody ==
    <<LockMutexStmt, CachesStmt, UnlockMutexStmt, TriggerStmt>>

OnAddEgressPolicyBody == <<LockMutexStmt, CachesStmt, TriggerStmt, UnlockMutexStmt>>

\* found: manager.policyConfigs[configID] != nil
OnDeleteEgressPolicyBody(found) ==
    IF found THEN <<LockMutexStmt, CachesStmt, TriggerStmt, UnlockMutexStmt>>
    ELSE <<LockMutexStmt, CachesStmt, UnlockMutexStmt>>

\* OnUpdateNode and OnDeleteNode, with onChangeNodeLocked
OnUpdateNodeBody == <<LockMutexStmt, CachesStmt, TriggerStmt, UnlockMutexStmt>>
OnDeleteNodeBody == <<LockMutexStmt, CachesStmt, TriggerStmt, UnlockMutexStmt>>

\* an endpoint handler that takes the Manager mutex inside pendingEndpointEventsLock
OnUpdateEndpointBody_LocksManagerInside ==
    <<LockPendingStmt, LockMutexStmt, PendingStmt, UnlockMutexStmt, UnlockPendingStmt,
      QueueStmt>>

OnUpdateEndpointBody == <<LockPendingStmt, PendingStmt, UnlockPendingStmt, QueueStmt>>
OnDeleteEndpointBody == <<LockPendingStmt, PendingStmt, UnlockPendingStmt, QueueStmt>>

\* addEndpoint; outcome: "early" (no pending entry, or getIdentityLabels failed),
\* "noMetadata" (getEndpointMetadata failed) or "stored"
addEndpointBody(outcome) ==
    <<LockMutexStmt, RLockPendingStmt, PendingStmt, RUnlockPendingStmt>>
    \o (IF outcome = "early" THEN <<>>
        ELSE <<LockPendingStmt, PendingStmt, UnlockPendingStmt>>)
    \o (IF outcome = "stored" THEN <<CachesStmt, TriggerStmt>> ELSE <<>>)
    \o <<UnlockMutexStmt>>

deleteEndpointBody ==
    <<LockMutexStmt, CachesStmt, LockPendingStmt, PendingStmt, UnlockPendingStmt,
      CachesStmt, TriggerStmt, UnlockMutexStmt>>

endpointEventIsPendingBody == <<RLockPendingStmt, PendingStmt, RUnlockPendingStmt>>

\* one iteration of the worker's loop after Get has returned an id; handler: "none"
\* (no pending entry), "delete" or an outcome of addEndpoint
processCiliumEndpointsBody(handler) ==
    <<RLockPendingStmt, PendingStmt, RUnlockPendingStmt>>
    \o (IF handler = "none" THEN <<>>
        ELSE IF handler = "delete" THEN deleteEndpointBody
        ELSE addEndpointBody(handler))
    \o endpointEventIsPendingBody
    \o <<QueueStmt>>

\* the bodies a goroutine runs, by name
Bodies(t) ==
    IF t = "watcher"
    THEN [OnAddEgressPolicy |-> OnAddEgressPolicyBody,
          OnDeleteEgressPolicy |-> OnDeleteEgressPolicyBody(TRUE),
          OnDeleteEgressPolicyNotFound |-> OnDeleteEgressPolicyBody(FALSE),
          OnUpdateNode |-> OnUpdateNodeBody,
          OnDeleteNode |-> OnDeleteNodeBody]
    ELSE IF t = "endpoints"
    THEN [OnUpdateEndpoint |-> OnUpdateEndpointBody,
          OnDeleteEndpoint |-> OnDeleteEndpointBody]
    ELSE IF t = "worker"
    THEN [none |-> processCiliumEndpointsBody("none"),
          delete |-> processCiliumEndpointsBody("delete"),
          early |-> processCiliumEndpointsBody("early"),
          noMetadata |-> processCiliumEndpointsBody("noMetadata"),
          stored |-> processCiliumEndpointsBody("stored")]
    ELSE IF t = "reconcile"
    THEN [TriggerFunc |-> TriggerFuncBody]
    ELSE [runReconciliationAfterK8sSync |-> runReconciliationAfterK8sSyncBody]

InCall(t) == threadPc[t].call \in DOMAIN Bodies(t)

\* the statement a goroutine executes next
NextStmt(t) == Bodies(t)[threadPc[t].call][threadPc[t].at]

\* the position after the statement: the goroutine leaves the body after the last
\* one; the goroutine of runReconciliationAfterK8sSync then ends
Advance(t) ==
    threadPc' =
       [threadPc EXCEPT
          ![t] = IF threadPc[t].at < Len(Bodies(t)[threadPc[t].call])
                 THEN [@ EXCEPT !.at = @ + 1]
                 ELSE IF t = "sync" THEN [call |-> "ended", at |-> 0]
                 ELSE Idle]

\* a goroutine enters one of its bodies
Call(t) ==
    /\ threadPc[t] = Idle
    /\ \E call \in DOMAIN Bodies(t) : threadPc' = [threadPc EXCEPT ![t] = [call |-> call, at |-> 1]]
    /\ UNCHANGED <<mutex, pendingEndpointEventsLock>>

MutexLock(t) ==
    /\ InCall(t) /\ NextStmt(t) = LockMutexStmt
    /\ mutex = "free"
    /\ mutex' = t
    /\ Advance(t)
    /\ UNCHANGED pendingEndpointEventsLock

MutexUnlock(t) ==
    /\ InCall(t) /\ NextStmt(t) = UnlockMutexStmt
    /\ mutex' = "free"
    /\ Advance(t)
    /\ UNCHANGED pendingEndpointEventsLock

\* RWMutex.Lock: the writer announces itself, which holds back new readers, and
\* gets the lock once the readers have left
PendingLock(t) ==
    /\ InCall(t) /\ NextStmt(t) = LockPendingStmt
    /\ IF t \notin pendingEndpointEventsLock.waiting
       THEN /\ pendingEndpointEventsLock' =
                  [pendingEndpointEventsLock EXCEPT !.waiting = @ \cup {t}]
            /\ UNCHANGED threadPc
       ELSE /\ pendingEndpointEventsLock.writer = ""
            /\ pendingEndpointEventsLock.readers = {}
            /\ pendingEndpointEventsLock' =
                  [pendingEndpointEventsLock EXCEPT !.waiting = @ \ {t}, !.writer = t]
            /\ Advance(t)
    /\ UNCHANGED mutex

PendingUnlock(t) ==
    /\ InCall(t) /\ NextStmt(t) = UnlockPendingStmt
    /\ pendingEndpointEventsLock' = [pendingEndpointEventsLock EXCEPT !.writer = ""]
    /\ Advance(t)
    /\ UNCHANGED mutex

PendingRLock(t) ==
    /\ InCall(t) /\ NextStmt(t) = RLockPendingStmt
    /\ pendingEndpointEventsLock.writer = ""
    /\ pendingEndpointEventsLock.waiting = {}
    /\ pendingEndpointEventsLock' = [pendingEndpointEventsLock EXCEPT !.readers = @ \cup {t}]
    /\ Advance(t)
    /\ UNCHANGED mutex

PendingRUnlock(t) ==
    /\ InCall(t) /\ NextStmt(t) = RUnlockPendingStmt
    /\ pendingEndpointEventsLock' = [pendingEndpointEventsLock EXCEPT !.readers = @ \ {t}]
    /\ Advance(t)
    /\ UNCHANGED mutex

\* any other statement of a body
Statement(t) ==
    /\ InCall(t) /\ NextStmt(t) \in {CachesStmt, PendingStmt, TriggerStmt, QueueStmt}
    /\ Advance(t)
    /\ UNCHANGED <<mutex, pendingEndpointEventsLock>>

dataVars ==
    <<installRoutes, syncVars, cacheVars, pendingEndpointEvents, queueVars, identityCache,
      eventsBitmap, triggerPending, hostVars, reconcilerVars, workerVars, watcher, obs,
      lifecycleVars>>

InitLocks == InitWith(FALSE, EmptyMap, {}, {}, {1, 2})

NextLocks ==
    \/ \E t \in Threads : Call(t) /\ UNCHANGED dataVars
    \/ \E t \in Threads : MutexLock(t) /\ UNCHANGED dataVars
    \/ \E t \in Threads : MutexUnlock(t) /\ UNCHANGED dataVars
    \/ \E t \in Threads : PendingLock(t) /\ UNCHANGED dataVars
    \/ \E t \in Threads : PendingUnlock(t) /\ UNCHANGED dataVars
    \/ \E t \in Threads : PendingRLock(t) /\ UNCHANGED dataVars
    \/ \E t \in Threads : PendingRUnlock(t) /\ UNCHANGED dataVars
    \/ \E t \in Threads : Statement(t) /\ UNCHANGED dataVars

SpecLocks == InitLocks /\ [][NextLocks]_vars

\* the statements of its body a goroutine has executed
Executed(t) ==
    IF InCall(t) THEN SubSeq(Bodies(t)[threadPc[t].call], 1, threadPc[t].at - 1) ELSE <<>>

Count(stmts, stmt) == Cardinality({i \in 1..Len(stmts) : stmts[i] = stmt})

\* by its position, the goroutine is between a Lock and the Unlock that follows it
InsideMutex(t) == Count(Executed(t), LockMutexStmt) > Count(Executed(t), UnlockMutexStmt)
InsidePendingLock(t) ==
    \/ Count(Executed(t), LockPendingStmt) > Count(Executed(t), UnlockPendingStmt)
    \/ Count(Executed(t), RLockPendingStmt) > Count(Executed(t), RUnlockPendingStmt)

\* C17: the bodies that run under the Manager mutex exclude each other: at most
\* one goroutine is inside reconcileLocked or inside the locked part of
\* OnAddEgressPolicy, OnDeleteEgressPolicy, OnUpdateNode, OnDeleteNode, addEndpoint
\* or deleteEndpoint, and a goroutine that is about to read or write the caches
\* or the events bitmap is that goroutine, the holder of the mutex.
C17_MutualExclusion ==
    /\ Cardinality({t \in Threads : InsideMutex(t)}) <= 1
    /\ \A t \in Threads :
          /\ InsideMutex(t) => mutex = t
          /\ (InCall(t) /\ NextStmt(t) = CachesStmt) => InsideMutex(t) /\ mutex = t

\* the reconciler is inside reconcileLocked while the watcher, the worker and the
\* goroutine of runReconciliationAfterK8sSync wait for the Manager mutex
C17_Witness ==
    /\ threadPc["reconcile"] = [call |-> "TriggerFunc", at |-> 2]
    /\ mutex = "reconcile"
    /\ threadPc["watcher"] = [call |-> "OnAddEgressPolicy", at |-> 1]
    /\ threadPc["worker"] = [call |-> "stored", at |-> 4]
    /\ threadPc["sync"] = [call |-> "runReconciliationAfterK8sSync", at |-> 1]

\* the goroutine cannot execute its next statement: it waits for a lock
Blocked(t) ==
    /\ InCall(t)
    /\ \/ NextStmt(t) = LockMutexStmt /\ mutex # "free"
       \/ /\ NextStmt(t) = LockPendingStmt
          /\ t \in pendingEndpointEventsLock.waiting
          /\ (pendingEndpointEventsLock.writer # "" \/ pendingEndpointEventsLock.readers # {})
       \/ /\ NextStmt(t) = RLockPendingStmt
          /\ (pendingEndpointEventsLock.writer # "" \/ pendingEndpointEventsLock.waiting # {})

\* C18: the Manager mutex is the outer lock and pendingEndpointEventsLock the inner
\* one: a goroutine that is about to take the Manager mutex holds no lock, one that
\* holds pendingEndpointEventsLock takes no lock at all, and whenever goroutines are
\* inside calls of the manager one of them is not blocked.
C18_LockOrderAndNoDeadlock ==
    /\ \A t \in Threads :
          /\ (InCall(t) /\ NextStmt(t) = LockMutexStmt)
                => ~InsidePendingLock(t) /\ ~InsideMutex(t)
          /\ (InCall(t) /\ InsidePendingLock(t))
                => NextStmt(t) \notin {LockMutexStmt, LockPendingStmt, RLockPendingStmt}
    /\ (\E t \in Threads : InCall(t)) => (\E t \in Threads : InCall(t) /\ ~Blocked(t))

\* every goroutine is inside a call: the worker holds the Manager mutex in
\* deleteEndpoint and waits for pendingEndpointEventsLock, which the endpoint
\* watcher holds; the three others wait for the Manager mutex
C18_Witness ==
    /\ threadPc["worker"].call = "delete"
    /\ mutex = "worker"
    /\ Blocked("worker")
    /\ pendingEndpointEventsLock.writer = "endpoints"
    /\ Blocked("watcher")
    /\ Blocked("reconcile")
    /\ Blocked("sync")

(***************************************************************************)
(* Shutdown: the OnStop hook cancels the root context and waits for the    *)
(* worker; the identity of the endpoint is unknown, so that ids are        *)
(* pending with backoff when the context is cancelled.                     *)
(***************************************************************************)
\* the timers of the retries that fire before the agent is stopped
MaxRetriesBeforeStop == 3

\* OnStop: cancel(), then wg.Wait()
OnStopCancel ==
    /\ stopPc = "running"
    /\ ctxDone' = TRUE
    /\ stopPc' = "wait"
    /\ UNCHANGED <<installRoutes, lockVars, shuttingDown, syncVars, mutex, cacheVars,
                   pendingEndpointEvents, queueVars, identityCache, eventsBitmap,
                   triggerPending, hostVars, reconcilerVars, workerVars, watcher, obs>>

\* a worker whose queue is never shut down
queueShutsDown_Never(cancelled) == FALSE

\* the goroutine that waits for ctx.Done() is ready to call retryQueue.ShutDown()
queueShutsDown(cancelled) == cancelled

\* case <-ctx.Done(): retryQueue.ShutDown()
QueueShutDown ==
    /\ queueShutsDown(ctxDone)
    /\ ~shuttingDown
    /\ shuttingDown' = TRUE
    /\ UNCHANGED <<installRoutes, lockVars, ctxDone, stopPc, syncVars, mutex, cacheVars,
                   pendingEndpointEvents, queueVars, identityCache, eventsBitmap,
                   triggerPending, hostVars, reconcilerVars, workerVars, watcher, obs>>

\* Get returns shutdown once the queue is shutting down and empty: the worker
\* breaks out of its loop and the deferred wg.Done() runs
WorkerExit ==
    /\ wpc = "get"
    /\ shuttingDown
    /\ queue = <<>>
    /\ wpc' = "exited"
    /\ UNCHANGED <<restVars, syncVars, mutex, cacheVars, pendingEndpointEvents, queueVars,
                   identityCache, eventsBitmap, triggerPending, hostVars, reconcilerVars,
                   wItem, wEvent, watcher, obs>>

\* wg.Wait() returns, and OnStop with it
OnStopReturn ==
    /\ stopPc = "wait"
    /\ wpc = "exited"
    /\ stopPc' = "returned"
    /\ UNCHANGED <<installRoutes, lockVars, ctxDone, shuttingDown, syncVars, mutex,
                   cacheVars, pendingEndpointEvents, queueVars, identityCache, eventsBitmap,
                   triggerPending, hostVars, reconcilerVars, workerVars, watcher, obs>>

\* runReconciliationAfterK8sSync: case <-ctx.Done()
SyncCancelled ==
    /\ syncPc = "wait"
    /\ ctxDone
    /\ syncPc' = "done"
    /\ UNCHANGED <<restVars, cacheSynced, mutex, cacheVars, pendingEndpointEvents,
                   queueVars, identityCache, eventsBitmap, triggerPending, hostVars,
                   reconcilerVars, workerVars, watcher, obs>>

NextShutdown ==
    \/ Quiescent /\ K8sSyncDone
    \/ SyncSetEventBitmap
    \/ SyncTrigger
    \/ SyncCancelled
    \/ Deliverable /\ \E config \in {PolicyA} : OnAddEgressPolicy(config)
    \/ Deliverable /\ \E endpoint \in {EndpointA} : OnUpdateEndpoint(endpoint)
    \/ HandlerQueueAdd
    \/ Quiescent /\ IdentityResolves(1)
    \/ Quiescent /\ \E id \in waitingForQueue :
                       NumFailures(id) <= MaxRetriesBeforeStop /\ DelayElapsed(id)
    \/ WorkerMayRun /\ WorkerGet
    \/ WorkerMayRun /\ WorkerReadPending
    \/ WorkerMayRun /\ AddEndpointBegin
    \/ WorkerMayRun /\ AddEndpointFinish(TRUE)
    \/ WorkerMayRun /\ WorkerRequeue
    \/ WorkerMayRun /\ WorkerDone
    \/ WorkerMayRun /\ WorkerExit
    \/ Quiescent /\ TriggerFire
    \/ Quiescent /\ ReconcileBegin
    \/ IpRulesAndRoutes({}, {})
    \/ AddMissingEgressRules
    \/ PolicyMapUpdate(TRUE)
    \/ RemoveUnusedEgressRules
    \/ ReconcileEnd
    \/ OnStopCancel
    \/ QueueShutDown
    \/ OnStopReturn

\* every goroutine keeps running: weak fairness for its steps, strong fairness for
\* the worker's Get, which the watcher's calls hold back again and again
FairShutdown ==
    /\ WF_vars(SyncSetEventBitmap)
    /\ WF_vars(SyncTrigger)
    /\ WF_vars(HandlerQueueAdd)
    /\ SF_vars(WorkerMayRun /\ WorkerGet)
    /\ WF_vars(WorkerMayRun /\ WorkerReadPending)
    /\ WF_vars(WorkerMayRun /\ AddEndpointBegin)
    /\ WF_vars(WorkerMayRun /\ AddEndpointFinish(TRUE))
    /\ WF_vars(WorkerMayRun /\ WorkerRequeue)
    /\ WF_vars(WorkerMayRun /\ WorkerDone)
    /\ SF_vars(WorkerMayRun /\ WorkerExit)
    /\ WF_vars(Quiescent /\ ReconcileBegin)
    /\ WF_vars(IpRulesAndRoutes({}, {}))
    /\ WF_vars(AddMissingEgressRules)
    /\ WF_vars(PolicyMapUpdate(TRUE))
    /\ WF_vars(RemoveUnusedEgressRules)
    /\ WF_vars(ReconcileEnd)
    /\ WF_vars(QueueShutDown)
    /\ WF_vars(OnStopReturn)

SpecShutdown == InitRetry /\ [][NextShutdown]_vars /\ FairShutdown

\* C19: once the root context is cancelled the event queue is shut down, the worker
\* leaves its Get loop and returns, and OnStop returns, and it returns only after
\* the worker has; the worker returns only from a queue that is shut down and
\* empty, whatever ids were queued or pending with backoff at the cancel.
C19_ShutdownStopsTheWorker ==
    /\ [](stopPc = "returned" => wpc = "exited")
    /\ [](wpc = "exited" => shuttingDown /\ queue = <<>> /\ processing = {})
    /\ (ctxDone ~> (shuttingDown /\ wpc = "exited" /\ stopPc = "returned"))

\* OnStop has returned after the worker, while the event of an endpoint is still
\* pending after failed attempts and the timer of its last AddRateLimited runs
C19_Witness ==
    /\ stopPc = "returned"
    /\ wpc = "exited"
    /\ EndpointA.id \in DOMAIN pendingEndpointEvents
    /\ NumFailures(EndpointA.id) > 1
    /\ EndpointA.id \in waitingForQueue

(***************************************************************************)
(* Handler calls and the reconcileLocked run that begins after them.  In   *)
(* Spec no handler runs while a run is in progress, so the calls that      *)
(* obs records during a run have returned before the run began.            *)
(***************************************************************************)
\* the cache holds what the last policy handler call for the id asked for
PolicyCallReflected(p) ==
    IF obs.policyCalls[p] = <<>>
    THEN p \notin DOMAIN policyConfigs
    ELSE /\ p \in DOMAIN policyConfigs
         /\ policyConfigs[p].endpointSelector = obs.policyCalls[p][1].endpointSelector
         /\ policyConfigs[p].dstCIDRs = obs.policyCalls[p][1].dstCIDRs
         /\ policyConfigs[p].excludedCIDRs = obs.policyCalls[p][1].excludedCIDRs
         /\ policyConfigs[p].policyGwConfig = obs.policyCalls[p][1].policyGwConfig
         /\ DOMAIN policyConfigs[p].matchedEndpoints = SelectedEndpoints(p)

\* the node caches hold what the last node handler call for the name asked for
NodeCallReflected(n) ==
    IF obs.nodeCalls[n] = <<>>
    THEN n \notin DOMAIN nodeDataStore /\ \A i \in 1..Len(nodes) : nodes[i].Name # n
    ELSE /\ n \in DOMAIN nodeDataStore
         /\ nodeDataStore[n] = obs.nodeCalls[n][1]
         /\ obs.nodeCalls[n][1] \in Range(nodes)

\* the endpoint store holds what the last endpoint handler call for the id asked for
EndpointCallReflected(id) == StoreReflects(id, obs.endpointCalls[id].event)

\* the keys of the policy map that the policies and the endpoints in ids ask for,
\* by the last handler calls
CalledKeys(ids) ==
    UNION {UNION {{[SourceIP |-> ip, DestCIDR |-> c] :
                      ip \in Range(obs.endpointCalls[id].event.endpoint[1].ips),
                      c \in Range(obs.policyCalls[p][1].dstCIDRs)
                            \cup Range(obs.policyCalls[p][1].excludedCIDRs)} :
                  id \in {i \in ids :
                             /\ obs.endpointCalls[i].event.eventType = eventUpdateEndpoint
                             /\ IdentityLabels(obs.endpointCalls[i].event.endpoint[1].identity)
                                   \in obs.policyCalls[p][1].endpointSelector}} :
           p \in {q \in DOMAIN obs.policyCalls : obs.policyCalls[q] # <<>>}}

\* the run reads caches, and after successful writes leaves a policy map, that
\* reflect the policy calls, the node calls and the endpoint calls of ids
ReflectedInTheRun(ids) ==
    /\ run.passed =>
          /\ \A p \in DOMAIN obs.policyCalls : PolicyCallReflected(p)
          /\ \A n \in DOMAIN obs.nodeCalls : NodeCallReflected(n)
          /\ \A id \in ids : EndpointCallReflected(id)
    /\ (RunEnded /\ run.passed /\ ~run.failed) => CalledKeys(ids) \subseteq DOMAIN policyMap

\* C20, as claimed: every handler call that has returned before a reconcileLocked
\* run begins, the calls of OnUpdateEndpoint and OnDeleteEndpoint among them, is
\* reflected in the caches the run reads and in the policy map it writes.
C20_EveryReturnedCallIsReflected == ReflectedInTheRun(DOMAIN obs.endpointCalls)

\* C20, amended: every OnAddEgressPolicy, OnDeleteEgressPolicy, OnUpdateNode and
\* OnDeleteNode call that has returned before a reconcileLocked run begins, and
\* every OnUpdateEndpoint or OnDeleteEndpoint call whose event the worker has
\* applied before the run begins, is reflected in the caches the run reads and
\* in the policy map it writes.
C20_EveryAppliedCallIsReflected ==
    ReflectedInTheRun({id \in DOMAIN obs.endpointCalls : obs.endpointCalls[id].applied})

\* a run has ended that reflects a policy call, a node call and an endpoint call
\* the worker has applied
C20_Witness ==
    /\ RunEnded /\ run.passed /\ ~run.failed
    /\ \E p \in DOMAIN obs.policyCalls : obs.policyCalls[p] # <<>>
    /\ \E n \in DOMAIN obs.nodeCalls : obs.nodeCalls[n] # <<>>
    /\ EndpointA.id \in DOMAIN obs.endpointCalls
    /\ obs.endpointCalls[EndpointA.id].applied
    /\ CalledKeys({EndpointA.id}) # {}
    /\ run.updates > 0


(***************************************************************************)
(* The manager that installs routes on a host where netlink.RuleAdd may    *)
(* fail, and that holds rules and routes of an earlier configuration:      *)
(* policy p1 moves between interfaces and destinations, the gateway node   *)
(* and the endpoint come and go.                                           *)
(***************************************************************************)
\* PolicyA on the second interface
PolicyAIface2 == Policy("p1", {"app"}, <<CIDR_A>>, <<CIDR_A1>>, "gw", 2, "172.16.0.1")
\* a policy for another destination on the second interface
PolicyAMoved == Policy("p1", {"app"}, <<CIDR_B>>, <<>>, "gw", 2, "172.16.0.1")

\* the rules the policies above ask for; one policy p1 with one endpoint address
\* asks for one rule, so that netlink.RuleAdd fails for all of a pass or for none
RuleMenu ==
    {newEgressIpRule("10.0.0.1", <<0, 2>>, egressGatewayRoutingTableIdx(1)),
     newEgressIpRule("10.0.0.1", <<0, 2>>, egressGatewayRoutingTableIdx(2)),
     newEgressIpRule("10.0.0.1", CIDR_B, egressGatewayRoutingTableIdx(2))}

InitRuleFail ==
    \E rules0 \in {{}, StaleRules} : \E routes0 \in {{}, StaleRoutes} :
        InitWith(TRUE, EmptyMap, rules0, routes0, {1, 2})

NextRuleFail ==
    \/ Quiescent /\ K8sSyncDone
    \/ SyncSetEventBitmap
    \/ SyncTrigger
    \/ Deliverable /\ \E config \in {PolicyA, PolicyAIface2, PolicyAMoved} :
                         OnAddEgressPolicy(config)
    \/ Deliverable /\ \E configID \in {"p1"} : OnDeleteEgressPolicy(configID)
    \/ Deliverable /\ \E node \in {NodeLocal} : OnUpdateNode(node)
    \/ Deliverable /\ \E node \in {NodeLocal} : OnDeleteNode(node)
    \/ Deliverable /\ \E endpoint \in {EndpointA} : OnUpdateEndpoint(endpoint)
    \/ Deliverable /\ \E endpoint \in {EndpointA} : OnDeleteEndpoint(endpoint)
    \/ HandlerQueueAdd
    \/ WorkerMayRun /\ WorkerGet
    \/ WorkerMayRun /\ WorkerReadPending
    \/ WorkerMayRun /\ AddEndpointBegin
    \/ WorkerMayRun /\ AddEndpointFinish(TRUE)
    \/ WorkerMayRun /\ deleteEndpoint
    \/ WorkerMayRun /\ WorkerRequeue
    \/ WorkerMayRun /\ WorkerDone
    \/ Quiescent /\ TriggerFire
    \/ Quiescent /\ ReconcileBegin
    \/ \E failing \in {{}, RuleMenu} : \E failingRetry \in {{}, RuleMenu} :
          IpRulesAndRoutes(failing, failingRetry)
    \/ AddMissingEgressRules
    \/ PolicyMapUpdate(TRUE)
    \/ RemoveUnusedEgressRules
    \/ PolicyMapDelete(TRUE)
    \/ ReconcileEnd

SpecRuleFail == InitRuleFail /\ [][NextRuleFail]_vars

\* the positions of the netlink calls of the run that are of one of the kinds
CallsAt(kinds) == {i \in 1..Len(run.hostLog) : run.hostLog[i] \in kinds}

\* the netlink call at position j was made by the retry pass
InRetryPass(j) ==
    /\ Len(run.rulePasses) = 2
    /\ run.rulePasses[2].isRetry
    /\ j > run.rulePasses[2].at

(***************************************************************************)
(* C21.  As claimed: within one run of reconcileLocked no netlink.RuleAdd  *)
(* call is made after a rule delete or a route delete of the run.          *)
(***************************************************************************)
C21_NoRuleAddAfterADelete ==
    \A i \in CallsAt({"RuleDel", "RouteDel"}) : \A j \in CallsAt({"RuleAdd"}) : j < i

(***************************************************************************)
(* C21, amended.  Within one run of reconcileLocked the RuleAdd calls of   *)
(* the first add pass precede every rule delete and every route delete; a  *)
(* RuleAdd call that follows a delete is one of the retry pass, which is   *)
(* made after the removal pass when a RuleAdd of the first pass failed,    *)
(* and no delete follows the retry pass.                                   *)
(***************************************************************************)
C21_OnlyTheRetryAddsAfterADelete ==
    \A i \in CallsAt({"RuleDel", "RouteDel"}) : \A j \in CallsAt({"RuleAdd"}) :
        j > i => /\ InRetryPass(j)
                 /\ ~InRetryPass(i)
                 /\ run.rulePasses[1].errors > 0

\* a run whose first pass failed to add a rule has deleted a stale rule and a stale
\* route and has then added the rule in the retry pass
C21_Witness ==
    /\ RunEnded
    /\ \E i \in CallsAt({"RuleDel"}) : \E k \in CallsAt({"RouteDel"}) :
          \E j \in CallsAt({"RuleAdd"}) : j > i /\ j > k /\ InRetryPass(j)
    /\ run.rulePasses[2].errors = 0
    /\ \E r \in ipRules : r \in RuleMenu

\* the step is the worker's AddRateLimited(wItem): the rate limiter counts a failure
\* of the id and the delaying queue holds the id
AddRateLimitedCalled == wItem \in DOMAIN failures' /\ wItem \in waitingForQueue'

\* the step is the worker's Forget(wItem): the rate limiter holds no failure of the
\* id, and the id is not given to the delaying queue
ForgetCalled == wItem \notin DOMAIN failures' /\ waitingForQueue' = waitingForQueue

\* the step is the worker's Done(wItem)
DoneCalled == wItem \in processing /\ processing' = processing \ {wItem}

(***************************************************************************)
(* C22.  For every id the worker gets from the queue: after processing it  *)
(* the worker calls AddRateLimited(id) when the id still has an entry in   *)
(* pendingEndpointEvents and Forget(id) when it has none, never both, and  *)
(* then Done(id), once, before its next Get; an id dequeued with no        *)
(* pending entry changes no cache, sets no event bit and fires no trigger. *)
(***************************************************************************)
C22_RequeueOrForgetThenDone ==
    [][/\ (wpc = "check" /\ wpc' # "check") =>
             /\ wpc' = "done"
             /\ IF wItem \in DOMAIN pendingEndpointEvents
                THEN AddRateLimitedCalled /\ ~ForgetCalled
                ELSE ForgetCalled /\ ~AddRateLimitedCalled
       /\ (wpc # "check" \/ wpc' = "check") =>
             /\ failures' = failures
             /\ waitingForQueue' \subseteq waitingForQueue
       /\ (wpc = "done" /\ wpc' # "done") => (wpc' = "get" /\ DoneCalled)
       /\ (wpc # "done" /\ wpc' = "done") => wpc = "check"
       /\ (wpc # "get" /\ wpc' = "get") => wpc = "done"
       /\ (wpc # "done" \/ wpc' = "done") => processing \subseteq processing'
       /\ (wpc = "read" /\ wpc' # "read" /\ wItem \notin DOMAIN pendingEndpointEvents) =>
             /\ wpc' = "check"
             /\ UNCHANGED <<cacheVars, eventsBitmap, triggerPending>>
      ]_vars

\* the worker has forgotten an id that the delaying queue handed back after its
\* event had been applied: it found no pending entry and left the stored endpoint
C22_Witness ==
    /\ wpc = "done"
    /\ wEvent = <<>>
    /\ wItem \in DOMAIN epDataStore
    /\ wItem \notin DOMAIN pendingEndpointEvents
    /\ wItem \notin DOMAIN failures
    /\ wItem \notin waitingForQueue

\* the step is addEndpoint returning after its call of getIdentityLabels
AddEndpointReturns == wpc = "getIdentityLabels" /\ wpc' # "getIdentityLabels"

(***************************************************************************)
(* C23.  When addEndpoint fails to resolve the identity it changes         *)
(* nothing: an identity the allocator does not know leaves the pending     *)
(* entry of the id, and an addEndpoint call that leaves the pending entry  *)
(* (the lookup returned nil, or the wait for the initial identities        *)
(* failed) leaves epDataStore, the policy caches and the events bitmap as  *)
(* they are and fires no trigger.                                          *)
(***************************************************************************)
C23_FailedResolutionChangesNothing ==
    [][AddEndpointReturns =>
          /\ wEvent[1].endpoint[1].identity \notin identityCache =>
                wItem \in DOMAIN pendingEndpointEvents'
          /\ wItem \in DOMAIN pendingEndpointEvents' =>
                /\ pendingEndpointEvents' = pendingEndpointEvents
                /\ UNCHANGED <<cacheVars, eventsBitmap, triggerPending>>
                /\ wpc' = "check"
      ]_vars

\* addEndpoint has returned from a failed wait for the initial identities, for an
\* endpoint whose identity the allocator knows: the event is still pending, the
\* endpoint is not stored and no reconciliation is requested
C23_Witness ==
    /\ wpc = "check"
    /\ wItem \in DOMAIN pendingEndpointEvents
    /\ wEvent = <<pendingEndpointEvents[wItem]>>
    /\ pendingEndpointEvents[wItem].eventType = eventUpdateEndpoint
    /\ pendingEndpointEvents[wItem].endpoint[1].identity \in identityCache
    /\ wItem \notin DOMAIN epDataStore
    /\ eventsBitmap = 0
    /\ ~triggerPending

(***************************************************************************)
(* The manager with a watcher that delivers, for endpoint ep2, an object   *)
(* with addresses and an object without any IPv4 address.                  *)
(***************************************************************************)
InitMetadata == InitWith(FALSE, EmptyMap, {}, {}, {1, 2})

NextMetadata ==
    \/ Quiescent /\ K8sSyncDone
    \/ SyncSetEventBitmap
    \/ SyncTrigger
    \/ Deliverable /\ \E config \in {PolicyA} : OnAddEgressPolicy(config)
    \/ Deliverable /\ \E endpoint \in {EndpointA, EndpointB, EndpointNoIP} :
                         OnUpdateEndpoint(endpoint)
    \/ Deliverable /\ \E endpoint \in {EndpointB} : OnDeleteEndpoint(endpoint)
    \/ HandlerQueueAdd
    \/ WorkerMayRun /\ WorkerGet
    \/ WorkerMayRun /\ WorkerReadPending
    \/ WorkerMayRun /\ AddEndpointBegin
    \/ WorkerMayRun /\ AddEndpointFinish(TRUE)
    \/ WorkerMayRun /\ deleteEndpoint
    \/ WorkerMayRun /\ WorkerRequeue
    \/ WorkerMayRun /\ WorkerDone
    \/ Quiescent /\ TriggerFire
    \/ Quiescent /\ ReconcileBegin
    \/ IpRulesAndRoutes({}, {})
    \/ AddMissingEgressRules
    \/ PolicyMapUpdate(TRUE)
    \/ RemoveUnusedEgressRules
    \/ PolicyMapDelete(TRUE)
    \/ ReconcileEnd

SpecMetadata == InitMetadata /\ [][NextMetadata]_vars

\* the endpoint object of the event addEndpoint has read has no IPv4 address, so that
\* no metadata can be built from it
NoMetadata ==
    /\ wEvent # <<>>
    /\ wEvent[1].endpoint # <<>>
    /\ wEvent[1].endpoint[1].ips = <<>>

(***************************************************************************)
(* C24.  When addEndpoint resolves the identity and fails to build the     *)
(* endpoint metadata, it removes the pending entry of the id, leaves       *)
(* epDataStore (with the entry the id had before, if any), the policy      *)
(* caches and the events bitmap as they are and fires no trigger; the      *)
(* worker then calls Forget for the id and does not re-enqueue it.         *)
(***************************************************************************)
C24_MetadataFailureIsTerminal ==
    [][/\ (AddEndpointReturns /\ NoMetadata
               /\ wEvent[1].endpoint[1].identity \in identityCache) =>
             /\ wItem \notin DOMAIN pendingEndpointEvents'
             /\ UNCHANGED <<cacheVars, eventsBitmap, triggerPending>>
             /\ wpc' = "check"
       /\ (wpc = "check" /\ wpc' # "check" /\ NoMetadata) =>
             /\ wItem \notin DOMAIN pendingEndpointEvents
             /\ ForgetCalled
             /\ ~AddRateLimitedCalled
             /\ wItem \notin dirty'
      ]_vars

\* the worker has forgotten endpoint ep2 after an update without address: the store
\* still holds the metadata of the earlier update
C24_Witness ==
    /\ wpc = "done"
    /\ wEvent # <<>>
    /\ wEvent[1].endpoint = <<EndpointNoIP>>
    /\ wItem = EndpointNoIP.id
    /\ wItem \in DOMAIN epDataStore
    /\ epDataStore[wItem].ips = EndpointB.ips
    /\ wItem \notin DOMAIN pendingEndpointEvents
    /\ wItem \notin DOMAIN failures
    /\ wItem \notin waitingForQueue

\* the step is reconcileLocked passing the Synchronized check and refreshing the
\* indices
RunBegins == rpc = "lock" /\ mutex' = "reconcile"

\* the endpoints of epDataStore that the selectors of policy p select
SelectedMetadata(p) ==
    [id \in {e \in DOMAIN epDataStore :
                epDataStore[e].labels \in policyConfigs[p].endpointSelector} |->
        epDataStore[id]]

\* the addresses of the endpoints policy p matches after the step
MatchedIPsAfter(p) ==
    UNION {Range(policyConfigs'[p].matchedEndpoints[e].ips) :
              e \in DOMAIN policyConfigs'[p].matchedEndpoints}

\* after the step policyConfigsBySourceIP lists, for every address of a matched
\* endpoint, the policies that match an endpoint with the address, and points to
\* the objects policyConfigs holds
IndexIsRebuilt ==
    /\ DOMAIN policyConfigsBySourceIP' =
          UNION {MatchedIPsAfter(p) : p \in DOMAIN policyConfigs'}
    /\ \A ip \in DOMAIN policyConfigsBySourceIP' :
          policyConfigsBySourceIP'[ip] =
             {p \in DOMAIN policyConfigs' : ip \in MatchedIPsAfter(p)}
    /\ staleConfigs' = EmptyMap

MatchedEndpointsUnchanged ==
    /\ DOMAIN policyConfigs' = DOMAIN policyConfigs
    /\ \A p \in DOMAIN policyConfigs :
          policyConfigs'[p].matchedEndpoints = policyConfigs[p].matchedEndpoints

(***************************************************************************)
(* C25.  The events bitmap alone decides what a reconcileLocked run        *)
(* refreshes.  With eventUpdateEndpoint, eventDeleteEndpoint or            *)
(* eventK8sSyncDone set the run re-evaluates the matched endpoints of      *)
(* every policy against epDataStore and then rebuilds                      *)
(* policyConfigsBySourceIP from them; with eventAddPolicy or               *)
(* eventDeletePolicy set and none of those it leaves the matched endpoints *)
(* and rebuilds policyConfigsBySourceIP; with node bits only, or no bit,   *)
(* it leaves both.  A run that passes the Synchronized check holds the     *)
(* bitmap as it found it until its end, and ends with the bitmap 0.        *)
(***************************************************************************)
C25_BitmapDecidesTheRefresh ==
    [][/\ RunBegins =>
             IF eventBitmapIsSet(eventsBitmap, {eventUpdateEndpoint, eventDeleteEndpoint,
                                                eventK8sSyncDone})
             THEN /\ DOMAIN policyConfigs' = DOMAIN policyConfigs
                  /\ \A p \in DOMAIN policyConfigs :
                        policyConfigs'[p].matchedEndpoints = SelectedMetadata(p)
                  /\ IndexIsRebuilt
             ELSE IF eventBitmapIsSet(eventsBitmap, {eventAddPolicy, eventDeletePolicy})
             THEN MatchedEndpointsUnchanged /\ IndexIsRebuilt
             ELSE /\ MatchedEndpointsUnchanged
                  /\ UNCHANGED <<policyConfigsBySourceIP, staleConfigs>>
       /\ (mutex = "reconcile" /\ mutex' = "reconcile") => eventsBitmap' = eventsBitmap
       /\ (mutex = "reconcile" /\ mutex' # "reconcile") =>
             (run.passed /\ rpc = "clear" /\ eventsBitmap' = 0)
      ]_vars

\* a run begun with no other bit than eventUpdateNode set, over a policy that matches
\* an endpoint, has made its calls: matched endpoints and index are in place
C25_Witness ==
    /\ RunEnded
    /\ eventsBitmap = eventUpdateNode
    /\ policyConfigsBySourceIP # EmptyMap
    /\ \E p \in DOMAIN policyConfigs :
          /\ DOMAIN policyConfigs[p].matchedEndpoints # {}
          /\ policyConfigs[p].gatewayConfig.localNodeConfiguredAsGateway

(***************************************************************************)
(* The manager over a policy map that holds entries of an earlier run of   *)
(* the agent and whose Update and Delete calls may fail: policy p1 comes   *)
(* and goes.                                                               *)
(***************************************************************************)
InitMapFail == \E map0 \in {EmptyMap, StaleMap} : InitWith(FALSE, map0, {}, {}, {1, 2})

NextMapFail ==
    \/ Quiescent /\ K8sSyncDone
    \/ SyncSetEventBitmap
    \/ SyncTrigger
    \/ Deliverable /\ \E config \in {PolicyA} : OnAddEgressPolicy(config)
    \/ Deliverable /\ \E configID \in {"p1"} : OnDeleteEgressPolicy(configID)
    \/ Deliverable /\ \E node \in {NodeLocal} : OnUpdateNode(node)
    \/ Deliverable /\ \E endpoint \in {EndpointA} : OnUpdateEndpoint(endpoint)
    \/ HandlerQueueAdd
    \/ WorkerMayRun /\ WorkerGet
    \/ WorkerMayRun /\ WorkerReadPending
    \/ WorkerMayRun /\ AddEndpointBegin
    \/ WorkerMayRun /\ AddEndpointFinish(TRUE)
    \/ WorkerMayRun /\ WorkerRequeue
    \/ WorkerMayRun /\ WorkerDone
    \/ Quiescent /\ TriggerFire
    \/ Quiescent /\ ReconcileBegin
    \/ IpRulesAndRoutes({}, {})
    \/ AddMissingEgressRules
    \/ \E ok \in BOOLEAN : PolicyMapUpdate(ok)
    \/ RemoveUnusedEgressRules
    \/ \E ok \in BOOLEAN : PolicyMapDelete(ok)
    \/ ReconcileEnd

SpecMapFail == InitMapFail /\ [][NextMapFail]_vars

\* the policy map holds for the key one of the values wanted for it
HoldsAWantedValue(k) ==
    k \in DOMAIN policyMap /\ \E e \in WantedEntries : e.key = k /\ e.val = policyMap[k]

(***************************************************************************)
(* C26.  A failing policyMap.Update or policyMap.Delete does not end the   *)
(* run: when the run has made its calls, every wanted key whose Update did *)
(* not fail holds a wanted value, and every entry that is not wanted is    *)
(* one whose Delete failed or, with a wanted key, one whose Update failed  *)
(* together with its Delete.  A later run whose writes all succeed, with   *)
(* no handler call in between, leaves exactly the wanted keys in the map,  *)
(* each with a wanted value.                                               *)
(***************************************************************************)
C26_WriteErrorsDoNotAbortTheRun ==
    /\ RunEnded =>
          /\ \A k \in WantedKeys : k \notin run.failedUpdates => HoldsAWantedValue(k)
          /\ \A k \in DOMAIN policyMap :
                ~HoldsAWantedValue(k) => k \in run.failedDeletes
    /\ (RunEnded /\ run.quiet /\ ~run.failed) =>
          /\ DOMAIN policyMap = WantedKeys
          /\ \A k \in DOMAIN policyMap : HoldsAWantedValue(k)

\* a run without a handler call since the run before it, in which a write had
\* failed, has written a missing entry and deleted an unused one
C26_Witness ==
    /\ RunEnded
    /\ run.quiet
    /\ ~run.clean
    /\ ~run.failed
    /\ run.updates > 0
    /\ run.deletes > 0
    /\ policyMap # EmptyMap
    /\ DOMAIN policyMap = WantedKeys

\* the policies that have the local node as gateway and select an endpoint of
\* epDataStore
LocalGatewayPolicies ==
    {p \in DOMAIN policyConfigs :
        GatewayOf(p).localNodeConfiguredAsGateway /\ SelectedEndpoints(p) # {}}

\* the pairs (endpoint IP, effective destination CIDR) of those policies
WantedRulePairs ==
    UNION {{<<ip, cidr>> : ip \in SelectedIPs(p),
                           cidr \in Range(destinationMinusExcludedCIDRs(policyConfigs[p]))} :
              p \in LocalGatewayPolicies}

\* the interfaces those policies use
WantedLinks == {GatewayOf(p).ifaceIndex : p \in LocalGatewayPolicies}

\* a route of the egress gateway: it is in the table of its own interface
IsEgressGatewayRoute(rt) == rt.Table = egressGatewayRoutingTableIdx(rt.LinkIndex)

\* no netlink.RuleAdd call of the run has failed
NoRuleAddFailed == \A i \in 1..Len(run.rulePasses) : run.rulePasses[i].errors = 0

\* the run has passed the Synchronized check and has made its rule and route calls
RulesReconciled == mutex = "reconcile" /\ run.passed /\ rpc # "ipRulesAndRoutes"

(***************************************************************************)
(* C27.  With installRoutes = true, when a reconcileLocked run has made    *)
(* its rule and route calls and none has failed, the (source, destination) *)
(* pairs of the egress gateway IP rules on the host are exactly the pairs  *)
(* (endpoint IP, effective destination CIDR) of the policies that have the *)
(* local node as gateway and match an endpoint; every interface such a     *)
(* policy uses has its route, and an egress gateway route is left only for *)
(* such an interface.  Whether or not a call fails, the run deletes no     *)
(* rule with such a pair and no route of such an interface.                *)
(***************************************************************************)
C27_RulesAndRoutesAreTheWantedOnes ==
    [][/\ (installRoutes' /\ RulesReconciled' /\ NoRuleAddFailed') =>
             /\ {<<r.Src, r.Dst>> : r \in ipRules'} = WantedRulePairs'
             /\ \A i \in WantedLinks' :
                   [LinkIndex |-> i, Table |-> egressGatewayRoutingTableIdx(i)] \in ipRoutes'
             /\ \A rt \in ipRoutes' : IsEgressGatewayRoute(rt) => rt.LinkIndex \in WantedLinks'
       /\ (installRoutes /\ rpc = "ipRulesAndRoutes") =>
             /\ \A r \in ipRules : <<r.Src, r.Dst>> \in WantedRulePairs => r \in ipRules'
             /\ \A rt \in ipRoutes : rt.LinkIndex \in WantedLinks => rt \in ipRoutes'
      ]_vars

\* a run without failed call has deleted a rule and a route of the earlier
\* configuration and has left the rule and the route of policy p1
C27_Witness ==
    /\ RunEnded
    /\ installRoutes
    /\ NoRuleAddFailed
    /\ {"RuleAdd", "RouteAdd", "RuleDel", "RouteDel"} \subseteq HostCalls
    /\ \E r \in ipRules : r \in RuleMenu
    /\ \E rt \in ipRoutes : IsEgressGatewayRoute(rt)
    /\ WantedRulePairs # {}

(***************************************************************************)
(* C28.  A reconcileLocked run makes the IP rule add pass at most twice:   *)
(* once without isRetry before removeUnusedIpRulesAndRoutes, and once more *)
(* with isRetry after it if and only if a netlink.RuleAdd of the first     *)
(* pass failed; a failure in the second pass causes no third pass.  The    *)
(* removal pass is made once.                                              *)
(***************************************************************************)
C28_AtMostOneRetryPass ==
    RulesReconciled =>
        /\ Len(run.rulePasses) \in {1, 2}
        /\ ~run.rulePasses[1].isRetry
        /\ Len(run.rulePasses) = 2 <=> run.rulePasses[1].errors > 0
        /\ shouldRetry <=> run.rulePasses[1].errors > 0
        /\ Cardinality(CallsAt({"RouteList"})) = 1
        /\ \A k \in CallsAt({"RouteList"}) :
              /\ run.rulePasses[1].at < k
              /\ Len(run.rulePasses) = 2 =>
                    /\ run.rulePasses[2].isRetry
                    /\ run.rulePasses[2].at >= k
              /\ \A j \in CallsAt({"RuleAdd", "RouteAdd"}) : j < k \/ InRetryPass(j)

\* a run whose RuleAdd failed in the first pass and again in the retry pass has gone
\* on to the policy map: the rule is missing and there was no third pass
C28_Witness ==
    /\ RunEnded
    /\ Len(run.rulePasses) = 2
    /\ run.rulePasses[1].errors > 0
    /\ run.rulePasses[2].errors > 0
    /\ WantedRulePairs # {}
    /\ \A r \in ipRules : <<r.Src, r.Dst>> \notin WantedRulePairs

(***************************************************************************)
(* C29.  As claimed: removeUnusedEgressRules never deletes an entry whose  *)
(* key is still wanted by a policy, also when the Update of the key failed *)
(* in the add pass of the same run and the entry carries its old value: no *)
(* step removes a wanted key from the policy map.                          *)
(***************************************************************************)
C29_RemovalNeverDeletesAWantedKey ==
    [][\A k \in DOMAIN policyMap : k \notin DOMAIN policyMap' => k \notin WantedKeys]_vars

\* a run has ended in which the Update of a wanted key that the map held with an old
\* value failed, and the key is gone from the map
C29_Witness ==
    /\ RunEnded
    /\ run.deletes > 0
    /\ \E k \in WantedKeys :
          /\ k \in run.stable
          /\ k \in run.failedUpdates
          /\ k \notin run.failedDeletes
          /\ k \notin DOMAIN policyMap

(***************************************************************************)
(* The manager with an endpoint watcher that is not held back by the       *)
(* worker: OnUpdateEndpoint and OnDeleteEndpoint take neither the Manager  *)
(* mutex nor anything the worker holds between its statements, so their    *)
(* map write and their queue Add fall between any two steps of the worker. *)
(* A nil pointer dereference in the worker goroutine ends the process.     *)
(***************************************************************************)
Running == wpc # "panic"

\* the worker goroutine is scheduled whatever the watcher does
WorkerIsScheduled == Running /\ mutex # "reconcile" /\ SyncIdle

\* the watcher calls a handler at any point of the worker's iteration
WatcherIsScheduled == Running /\ mutex # "reconcile" /\ SyncIdle

InitRace == InitWith(FALSE, EmptyMap, {}, {}, {1, 2})

NextRace ==
    \/ Quiescent /\ K8sSyncDone
    \/ Running /\ SyncSetEventBitmap
    \/ Running /\ SyncTrigger
    \/ Deliverable /\ \E config \in {PolicyA} : OnAddEgressPolicy(config)
    \/ WatcherIsScheduled /\ \E endpoint \in {EndpointA} : OnUpdateEndpoint(endpoint)
    \/ WatcherIsScheduled /\ \E endpoint \in {EndpointA} : OnDeleteEndpoint(endpoint)
    \/ WatcherIsScheduled /\ HandlerQueueAdd
    \/ WorkerIsScheduled /\ WorkerGet
    \/ WorkerIsScheduled /\ WorkerReadPending
    \/ WorkerIsScheduled /\ AddEndpointBegin
    \/ WorkerIsScheduled /\ AddEndpointFinish(TRUE)
    \/ WorkerIsScheduled /\ deleteEndpoint
    \/ WorkerIsScheduled /\ WorkerRequeue
    \/ WorkerIsScheduled /\ WorkerDone
    \/ Quiescent /\ TriggerFire
    \/ Quiescent /\ ReconcileBegin
    \/ IpRulesAndRoutes({}, {})
    \/ AddMissingEgressRules
    \/ PolicyMapUpdate(TRUE)
    \/ RemoveUnusedEgressRules
    \/ PolicyMapDelete(TRUE)
    \/ ReconcileEnd

SpecRace == InitRace /\ [][NextRace]_vars

\* addEndpoint has re-read the pending event of its id and holds it in epEvent
AddEndpointHoldsAnEvent == wpc \in {"getIdentityLabels", "panic"}

(***************************************************************************)
(* C30.  As claimed: under every interleaving of the endpoint handlers     *)
(* with the worker, the event addEndpoint acts on is of type Update and    *)
(* carries an endpoint object, so that addEndpoint never dereferences the  *)
(* nil endpoint of a Delete event.                                         *)
(***************************************************************************)
C30_AddEndpointActsOnUpdateEventsOnly ==
    AddEndpointHoldsAnEvent =>
        /\ wEvent[1].eventType = eventUpdateEndpoint
        /\ wEvent[1].endpoint # <<>>
        /\ Running

\* the worker has read an Update event for ep1 and called addEndpoint, OnDeleteEndpoint
\* has overwritten the entry before addEndpoint read it again, and addEndpoint has
\* dereferenced the nil endpoint of the Delete event under the Manager mutex
C30_Witness ==
    /\ wpc = "panic"
    /\ mutex = "worker"
    /\ wItem = "ep1"
    /\ obs.last["ep1"].event.eventType = eventDeleteEndpoint
    /\ pendingEndpointEvents["ep1"] = [eventType |-> eventDeleteEndpoint, endpoint |-> <<>>]

\* the queue is drained: the worker waits in Get, no id is queued, marked dirty, in
\* processing or waiting for its retry timer, and no handler is between its map
\* write and its Add
QueueDrained ==
    /\ Running
    /\ wpc = "get"
    /\ watcher = <<>>
    /\ queue = <<>>
    /\ dirty = {}
    /\ processing = {}
    /\ waitingForQueue = {}

\* the worker has returned from addEndpoint or deleteEndpoint, or has found no entry,
\* and the map holds no entry for its id
EntryIsGone == wpc = "check" /\ wItem \notin DOMAIN pendingEndpointEvents

(***************************************************************************)
(* C31.  As claimed: under every interleaving of the endpoint handlers     *)
(* with the worker, once the queue is drained the endpoint store agrees    *)
(* with the last handler call for each id (the metadata of the last        *)
(* endpoint object after an update, no entry after a delete), and a        *)
(* pending entry written while the worker processes its id is not removed  *)
(* without being applied.                                                  *)
(***************************************************************************)
C31_NoEndpointEventIsLost ==
    /\ QueueDrained => \A id \in DOMAIN obs.endpointCalls : EndpointCallReflected(id)
    /\ EntryIsGone => (wItem \in DOMAIN obs.endpointCalls => obs.endpointCalls[wItem].applied)

\* the queue is drained and no event is pending, the last call for ep1 was
\* OnDeleteEndpoint, written between addEndpoint's read of the Update event and its
\* delete of the entry, and the endpoint store still holds ep1
C31_Witness ==
    /\ QueueDrained
    /\ pendingEndpointEvents = EmptyMap
    /\ "ep1" \in DOMAIN obs.endpointCalls
    /\ obs.endpointCalls["ep1"].event.eventType = eventDeleteEndpoint
    /\ ~obs.endpointCalls["ep1"].applied
    /\ "ep1" \in DOMAIN epDataStore

(***************************************************************************)
(* The manager whose watchers deliver finitely many events, some of them   *)
(* before the k8s caches are synced: at most one add and then one delete   *)
(* of policy p1, of the local node and of endpoint ep1.  The endpoint      *)
(* handlers run between any two steps of the worker.  The caches get       *)
(* synced, the Go scheduler lets every goroutine that can run make its     *)
(* step, and the trigger's goroutine calls TriggerFunc after a request.    *)
(***************************************************************************)
\* the watcher has made no call for the id
NotCalled(calls, id) == id \notin DOMAIN calls

\* the last call of the watcher for the id was an add or an update
LastCallAdded(calls, id) == id \in DOMAIN calls /\ calls[id] # <<>>

\* the last call of the endpoint watcher for the id was OnUpdateEndpoint
LastCallUpdatedEndpoint(id) ==
    /\ id \in DOMAIN obs.endpointCalls
    /\ obs.endpointCalls[id].event.eventType = eventUpdateEndpoint

InitConverge == \E map0 \in {EmptyMap, StaleMap} : InitWith(FALSE, map0, {}, {}, {1, 2})

NextConverge ==
    \/ Running /\ Quiescent /\ K8sSyncDone
    \/ Running /\ SyncSetEventBitmap
    \/ Running /\ SyncTrigger
    \/ Running /\ Deliverable /\ NotCalled(obs.policyCalls, PolicyA.id)
               /\ OnAddEgressPolicy(PolicyA)
    \/ Running /\ Deliverable /\ LastCallAdded(obs.policyCalls, PolicyA.id)
               /\ OnDeleteEgressPolicy(PolicyA.id)
    \/ Running /\ Deliverable /\ NotCalled(obs.nodeCalls, NodeLocal.Name)
               /\ OnUpdateNode(NodeLocal)
    \/ Running /\ Deliverable /\ LastCallAdded(obs.nodeCalls, NodeLocal.Name)
               /\ OnDeleteNode(NodeLocal)
    \/ WatcherIsScheduled /\ NotCalled(obs.endpointCalls, EndpointA.id)
               /\ OnUpdateEndpoint(EndpointA)
    \/ WatcherIsScheduled /\ LastCallUpdatedEndpoint(EndpointA.id)
               /\ OnDeleteEndpoint(EndpointA)
    \/ WatcherIsScheduled /\ HandlerQueueAdd
    \/ WorkerIsScheduled /\ WorkerGet
    \/ WorkerIsScheduled /\ WorkerReadPending
    \/ WorkerIsScheduled /\ AddEndpointBegin
    \/ WorkerIsScheduled /\ AddEndpointFinish(TRUE)
    \/ WorkerIsScheduled /\ deleteEndpoint
    \/ WorkerIsScheduled /\ WorkerRequeue
    \/ WorkerIsScheduled /\ WorkerDone
    \/ Running /\ Quiescent /\ TriggerFire
    \/ Running /\ Quiescent /\ ReconcileBegin
    \/ IpRulesAndRoutes({}, {})
    \/ AddMissingEgressRules
    \/ PolicyMapUpdate(TRUE)
    \/ RemoveUnusedEgressRules
    \/ PolicyMapDelete(TRUE)
    \/ ReconcileEnd

FairConverge ==
    /\ WF_vars(Running /\ Quiescent /\ K8sSyncDone)
    /\ WF_vars(Running /\ SyncSetEventBitmap)
    /\ WF_vars(Running /\ SyncTrigger)
    /\ WF_vars(WatcherIsScheduled /\ HandlerQueueAdd)
    /\ WF_vars(WorkerIsScheduled /\ WorkerGet)
    /\ WF_vars(WorkerIsScheduled /\ WorkerReadPending)
    /\ WF_vars(WorkerIsScheduled /\ AddEndpointBegin)
    /\ WF_vars(WorkerIsScheduled /\ AddEndpointFinish(TRUE))
    /\ WF_vars(WorkerIsScheduled /\ deleteEndpoint)
    /\ WF_vars(WorkerIsScheduled /\ WorkerRequeue)
    /\ WF_vars(WorkerIsScheduled /\ WorkerDone)
    /\ WF_vars(Running /\ Quiescent /\ TriggerFire)
    /\ WF_vars(Running /\ Quiescent /\ ReconcileBegin)
    /\ WF_vars(IpRulesAndRoutes({}, {}))
    /\ WF_vars(AddMissingEgressRules)
    /\ WF_vars(PolicyMapUpdate(TRUE))
    /\ WF_vars(RemoveUnusedEgressRules)
    /\ WF_vars(PolicyMapDelete(TRUE))
    /\ WF_vars(ReconcileEnd)

SpecConverge == InitConverge /\ [][NextConverge]_vars /\ FairConverge

\* no event is pending, no bit is set, and the policy map holds every entry the
\* policies, the endpoint store and the nodes ask for and no other entry
Converged ==
    /\ pendingEndpointEvents = EmptyMap
    /\ eventsBitmap = 0
    /\ DOMAIN policyMap = WantedKeys
    /\ \A e \in WantedEntries : policyMap[e.key] = e.val

(***************************************************************************)
(* C32.  As claimed: when the k8s sync completes, the handler calls stop,  *)
(* the identities are resolvable and the policy map writes succeed, then   *)
(* under fair scheduling the manager reaches, and stays in, a state in     *)
(* which no event is pending, the bitmap is 0 and the policy map is the    *)
(* wanted one, also for events received before the sync completed.         *)
(***************************************************************************)
C32_Converges == <>[]Converged

(***************************************************************************)
(* C32, amended.  The manager converges in this way unless addEndpoint has *)
(* dereferenced the nil endpoint of a Delete event that OnDeleteEndpoint   *)
(* stored between the worker's two reads of the pending entry.             *)
(***************************************************************************)
C32_ConvergesUnlessTheWorkerPanicked == <>[](Converged \/ ~Running)

\* the k8s sync has completed with events received before it, the watcher is between
\* no two statements of a handler, and the worker goroutine has panicked in addEndpoint
\* with the Delete event of ep1 pending and bits set that no run will clear
C32_Witness ==
    /\ ~Running
    /\ cacheSynced
    /\ syncPc = "done"
    /\ watcher = <<>>
    /\ obs.endpointCalls["ep1"].event.eventType = eventDeleteEndpoint
    /\ "ep1" \in DOMAIN pendingEndpointEvents
    /\ eventsBitmap # 0
    /\ ~Converged
====
